---- MODULE Spec2Model ----
(***************************************************************************)
(* A model of tracklistify's orchestrator, AsyncApp                        *)
(* (src/src/tracklistify/core/base.py): process_input and the stages it    *)
(* sequences (_prepare_input, split_audio with its worker pool,            *)
(* identify_tracks, save_output) and cleanup; and of the user store,       *)
(* UserStore (src/services/user_store.py).                                 *)
(*                                                                         *)
(* Times are counted in half seconds (the padding of split_audio is 0.5 s):*)
(* a configured length of s seconds is Sec(s) = 2*s half seconds.          *)
(***************************************************************************)
EXTENDS Integers, Sequences, FiniteSets, TLC

\* ------------------------------------------------------------- bounds
\* Longest audio file, in half seconds.
MaxDuration == 5
\* Longest configured segment_length, in seconds.
MaxSegmentLength == 2
\* Calls of process_input made on one AsyncApp.
MaxCalls == 1
\* Direct calls of split_audio made on one AsyncApp.
MaxSplits == 2
\* Longest track list the recognition backend returns.
MaxTracks == 2
\* The planning loop on its own: the longest audio file, in half seconds,
\* and the longest configured segment_length, in seconds.
MaxPlanDuration == 12
MaxPlanSegment == 3
\* Cleanups run for one process_input, its own included.
MaxCleanups == 3
\* Users the store holds at most.
MaxUsers == 2
\* Ids and password hashes generated at most (uuid4, the hash's salt).
MaxMinted == 4
\* Calls of the user store in progress at once.
MaxThreads == 2

\* ------------------------------------------------- program constants
\* create_segment: a segment file counts only with st_size > 1000.
MinSize == 1000

\* ------------------------------------------------------------ helpers
Min(a, b) == IF a < b THEN a ELSE b
Range(seq) == {seq[k] : k \in DOMAIN seq}
Max(a, b) == IF a > b THEN a ELSE b

\* s seconds in half seconds.
Sec(s) == 2 * s

\* int(x) of a non-negative time x given in half seconds: truncation.
IntOf(h) == h \div 2

\* f"{x:.0f}" of a non-negative time x given in half seconds: the nearest
\* integer, a tie going to the even one.
Fmt0(h) ==
    IF h % 2 = 0 THEN h \div 2
    ELSE IF (h \div 2) % 2 = 0 THEN h \div 2 ELSE (h \div 2) + 1

\* A name made of the length alone.
SegmentFileByLength(current_time, segment_length) ==
    <<"segment", 0, Fmt0(segment_length)>>

\* temp_dir / f"segment_{current_time:.0f}_{segment_length:.0f}.mp3"
SegmentFile(current_time, segment_length) ==
    <<"segment", Fmt0(current_time), Fmt0(segment_length)>>

\* The step with the overlap forgotten.
StepNoOverlap(segment_duration, overlap_duration) == segment_duration

\* The step with its operands exchanged.
StepReversed(segment_duration, overlap_duration) ==
    overlap_duration - segment_duration

\* step = segment_duration - overlap_duration
Step(segment_duration, overlap_duration) ==
    segment_duration - overlap_duration

\* The loop going on while current_time <= duration.
InLoopInclusive(current_time, duration) == current_time <= duration

\* while current_time < duration
InLoop(current_time, duration) == current_time < duration

\* The segment length without the cut at the end of the file.
SegmentLengthFull(segment_duration, duration, current_time) ==
    segment_duration

\* segment_length = min(segment_duration, duration - current_time)
SegmentLength(segment_duration, duration, current_time) ==
    Min(segment_duration, duration - current_time)

\* The padded window the transcoder is asked for (-ss, -t): half a second
\* more on each side, within the file.
PaddedStart(current_time) == Max(0, current_time - 1)
PaddedEnd(duration, current_time, segment_length) ==
    Min(duration, current_time + segment_length + 1)

\* The entry with the padded window recorded as the nominal one.
PlanPadded(current_time, segment_length, duration) ==
    [start_time |-> PaddedStart(current_time),
     length     |-> PaddedEnd(duration, current_time, segment_length)
                        - PaddedStart(current_time),
     file       |-> SegmentFile(current_time, segment_length),
     ss         |-> PaddedStart(current_time),
     t          |-> PaddedEnd(duration, current_time, segment_length)
                        - PaddedStart(current_time)]

\* One entry of segment_params: the nominal start and length, the output
\* file, and the padded window of the command (-ss start_time,
\* -t actual_length).
Plan(current_time, segment_length, duration) ==
    [start_time |-> current_time,
     length     |-> segment_length,
     file       |-> SegmentFile(current_time, segment_length),
     ss         |-> PaddedStart(current_time),
     t          |-> PaddedEnd(duration, current_time, segment_length)
                        - PaddedStart(current_time)]

\* The planning loop of split_audio: one entry of segment_params per
\* current_time = 0, step, 2*step, ... while current_time < duration.
RECURSIVE SegmentParams(_, _, _, _)
SegmentParams(current_time, duration, segment_duration, step) ==
    IF InLoop(current_time, duration)
    THEN <<Plan(current_time,
                SegmentLength(segment_duration, duration, current_time),
                duration)>>
         \o SegmentParams(current_time + step, duration,
                          segment_duration, step)
    ELSE <<>>

\* The segment with the padded window of the command recorded on it.
AudioSegmentPadded(params) ==
    [file_path  |-> params.file,
     start_time |-> IntOf(params.ss),
     duration   |-> IntOf(params.t)]

\* AudioSegment(file_path=str(params["file"]),
\*              start_time=int(params["start_time"]),
\*              duration=int(params["length"]))
AudioSegment(params) ==
    [file_path  |-> params.file,
     start_time |-> IntOf(params.start_time),
     duration   |-> IntOf(params.length)]

\* A worker's result when it produced no segment (create_segment's None).
NoSegment == [file_path |-> <<>>, start_time |-> 0, duration |-> 0]

\* The test with >= for >.
ValidOutputAtLeast(files, name) ==
    \E f \in files : f.name = name /\ f.size >= MinSize

\* create_segment's test on a file of the temp directory:
\* params["file"].exists() and params["file"].stat().st_size > 1000
ValidOutput(files, name) ==
    \E f \in files : f.name = name /\ f.size > MinSize

\* create_segment without the reuse of an output file.
ReusableNever(files, name) == FALSE

\* create_segment's test before it runs the transcoder: the output file
\* exists already and has content (st_size > 1000).
Reusable(files, name) ==
    \E f \in files : f.name = name /\ f.size > MinSize

\* The filter stopping at the first None instead of skipping it.
RECURSIVE FilterUntilNone(_)
FilterUntilNone(future_segments) ==
    IF future_segments = <<>> \/ Head(future_segments) = NoSegment THEN <<>>
    ELSE <<Head(future_segments)>> \o FilterUntilNone(Tail(future_segments))

\* segments = [seg for seg in future_segments if seg is not None]
RECURSIVE FilterSegments(_)
FilterSegments(future_segments) ==
    IF future_segments = <<>> THEN <<>>
    ELSE (IF Head(future_segments) = NoSegment THEN <<>>
          ELSE <<Head(future_segments)>>)
         \o FilterSegments(Tail(future_segments))

\* One worker per plan, whatever the CPU count.
MaxWorkersUnbounded(cpus, params) == Len(params)

\* max_workers = min(cpu_count * 2, len(segment_params))
MaxWorkers(cpus, params) == Min(cpus * 2, Len(params))

\* ------------------------------------------------------------- inputs
\* A path names a file by where it lies and what mutagen's File() finds in
\* it: <<where, kind, length>>, kind "audio" with info.length = length half
\* seconds, "unknown" (File() returns None), "noinfo" (no info.length) or
\* "ioerror" (File() raises: the file cannot be opened).
NoPath == <<>>
Media(where) ==
    {<<where, "audio", d>> : d \in {0, MaxDuration - 2}}
        \cup {<<where, "unknown", 0>>, <<where, "noinfo", 0>>,
              <<where, "ioerror", 0>>}

\* What validate_input, Path.exists, the downloader factory and the
\* downloader answer for one input string:
\*   valid       validate_input returns a pair, not None
\*   validated   the validated path or URL
\*   is_local    the pair's second component
\*   exists      Path(validated_path).exists()
\*   downloader  create_downloader returns a downloader
Inputs ==
    {[valid |-> FALSE, validated |-> <<"raw", "bad", 0>>, is_local |-> FALSE,
      exists |-> FALSE, downloader |-> FALSE]}
    \cup {[valid |-> TRUE, validated |-> p, is_local |-> TRUE,
           exists |-> TRUE, downloader |-> FALSE] : p \in Media("local")}
    \cup {[valid |-> TRUE, validated |-> <<"gone", "audio", 0>>,
           is_local |-> TRUE, exists |-> FALSE, downloader |-> FALSE]}
    \cup {[valid |-> TRUE, validated |-> <<"url", "remote", 0>>,
           is_local |-> FALSE, exists |-> FALSE, downloader |-> d]
            : d \in BOOLEAN}

\* The files split_audio is called on directly: two files of the same
\* length, and a shorter one.
SplitInputs ==
    {<<"local", "audio", MaxDuration>>, <<"dl", "audio", MaxDuration>>,
     <<"local", "audio", MaxDuration - 2>>}

\* What downloader.download can return: a downloaded file, or None.
Downloads == {<<"dl", "audio", MaxDuration - 2>>, <<"dl", "unknown", 0>>}

Track == [artist : {"A", ""}, song_name : {"B"}]
TrackLists == UNION {[1..n -> Track] : n \in 0..MaxTracks}

\* self.config: segment_length and overlap_duration in seconds, with the
\* shortest step (one second) the longest segment_length allows.
Configs ==
    {[segment_length |-> MaxSegmentLength,
      overlap_duration |-> MaxSegmentLength - 1,
      output_format |-> f] : f \in {"all", "json"}}

\* ------------------------------------------------------- mix metadata
\* A string is the sequence of its pieces, " " being white space or control
\* characters at either end: <<" ", "Mix">> is " Mix", <<>> is "".
\* sanitizer(s): s without them.
Sanitizer(str) == SelectSeq(str, LAMBDA piece : piece # " ")

\* Path(p).stem
Stem(p) == <<p[1]>>

UnknownArtist == <<"Unknown artist">>

\* A duration as the downloader gives it: no value ("none"), a number
\* ("num"), a string that float() parses ("text") or does not ("bad").
RawDurations ==
    {[kind |-> "none", value |-> 0], [kind |-> "num", value |-> 0],
     [kind |-> "num", value |-> 7], [kind |-> "text", value |-> 7],
     [kind |-> "bad", value |-> 0]}

\* float(duration) succeeds.
Parses(raw) == raw.kind \in {"num", "text"}

\* _set_mix_metadata: float(duration) if duration is not None else 0, and
\* 0 when float() raises.
StoredDuration(raw) == IF Parses(raw) THEN raw.value ELSE 0

\* _set_mix_metadata(title, uploader, duration): what it stores.
SetMixMetadata(title, uploader, raw) ==
    [title    |-> Sanitizer(title),
     artist   |-> Sanitizer(uploader),
     duration |-> StoredDuration(raw)]

\* What downloader.get_last_metadata() returns (`present`: a non-empty
\* dict; a title or uploader it lacks reads as "", a duration it lacks as
\* the number 0, and a duration of kind "none" is the value None) and the
\* attributes the downloader object has.
NoMetadata ==
    [present |-> FALSE, title |-> <<>>, uploader |-> <<>>,
     duration |-> [kind |-> "none", value |-> 0]]
NoAttrs ==
    [attrs |-> {}, title |-> <<>>, uploader |-> <<>>,
     duration |-> [kind |-> "none", value |-> 0]]

\* What a download of process_input is given: a title, an uploader and a
\* duration (DownloaderResults has the other cases).
Metadatas ==
    {[present |-> TRUE, title |-> <<"Mix">>, uploader |-> <<"DJ">>,
      duration |-> [kind |-> "num", value |-> 7]]}
DownloaderAttrs == {NoAttrs}

\* What _apply_downloader_metadata is given when it is run on its own:
\* metadata with every kind of duration (the downloader's attributes are
\* not read then), or none and a downloader with any of the attributes.
DownloaderResults ==
    {[md |-> [present |-> TRUE, title |-> t[1], uploader |-> t[2],
              duration |-> raw],
      dl |-> NoAttrs] :
         t \in {<<<<>>, <<>>>>, <<<<"Mix">>, <<"DJ">>>>,
                <<<<" ">>, <<"DJ", " ">>>>},
         raw \in RawDurations}
    \cup {[md |-> NoMetadata,
           dl |-> [attrs |-> a, title |-> <<"Set">>, uploader |-> <<"VJ">>,
                   duration |-> [kind |-> "text", value |-> 7]]] :
              a \in SUBSET {"title", "uploader", "duration"}}

\* A title taken from the downloader's attributes alone.
DownloaderTitleFromAttrs(md, dl, p) ==
    IF "title" \in dl.attrs THEN dl.title ELSE Stem(p)

\* _apply_downloader_metadata: the title, uploader and duration handed to
\* _set_mix_metadata, from the metadata when there is any, else from the
\* downloader's attributes, else from the file name and the defaults.
DownloaderTitle(md, dl, p) ==
    IF md.present THEN md.title
    ELSE IF "title" \in dl.attrs THEN dl.title ELSE Stem(p)
DownloaderUploader(md, dl) ==
    IF md.present THEN md.uploader
    ELSE IF "uploader" \in dl.attrs THEN dl.uploader ELSE UnknownArtist
DownloaderDuration(md, dl) ==
    IF md.present THEN md.duration
    ELSE IF "duration" \in dl.attrs THEN dl.duration
    ELSE [kind |-> "num", value |-> 0]

\* What a resolve was given: `how` is "local" (a local file at `path`) or
\* "remote" (the download at `path`, with the downloader's metadata and
\* attributes).
Given(how, md, dl, path) == [how |-> how, md |-> md, dl |-> dl, path |-> path]

\* The record `resolved` keeps of it.
Resolution(given, title, uploader, raw) ==
    [given    |-> given,
     title    |-> SetMixMetadata(title, uploader, raw).title,
     artist   |-> SetMixMetadata(title, uploader, raw).artist,
     duration |-> SetMixMetadata(title, uploader, raw).duration,
     raw      |-> raw]

\* The configuration invariant its loader validates before an AsyncApp is
\* given the config: an overlap that is a length, shorter than the segment.
ValidConfig(c) ==
    0 <= c.overlap_duration /\ c.overlap_duration < c.segment_length

\* The configs the planning loop is run with on its own: every
\* segment_length and overlap_duration up to MaxPlanSegment seconds, and
\* segments of 60 s overlapping by 10 s.
PlanConfigs ==
    {[segment_length |-> s, overlap_duration |-> o, output_format |-> "all"]
        : s \in 1..MaxPlanSegment, o \in 0..MaxPlanSegment}
    \cup {[segment_length |-> 60, overlap_duration |-> 10,
            output_format |-> "all"]}

\* The audio files it is run on: every length up to MaxPlanDuration half
\* seconds with the short segments, 125 s with the segments of 60 s.
PlanFiles(c) ==
    IF c.segment_length <= MaxPlanSegment
    THEN {<<"local", "audio", d>> : d \in 0..MaxPlanDuration}
    ELSE {<<"local", "audio", Sec(125)>>}

\* ------------------------------------------------- user store: data
\* An e-mail address is what it names and how it is written: `cased` with
\* upper-case letters in its local part, `padded` with white space around
\* it. NoEmail is None or "", NotAnAddress a string EmailStr rejects.
Email(addr, cased, padded) ==
    [addr |-> addr, cased |-> cased, padded |-> padded]
NoEmail == Email("", FALSE, FALSE)
NotAnAddress == Email("not an address", FALSE, FALSE)
ValidEmail(email) == email.addr \notin {NoEmail.addr, NotAnAddress.addr}

\* str.lower() and str.strip() on an address.
Lower(email) == [email EXCEPT !.cased = FALSE]
Strip(email) == [email EXCEPT !.padded = FALSE]

DEFAULT_ADMIN_EMAIL == Email("admin", FALSE, FALSE)
DEFAULT_ADMIN_PASSWORD == "123456"

\* The passwords callers give ("" stands for none), without white space
\* around them.
Passwords == {DEFAULT_ADMIN_PASSWORD, "secret"}

\* generate_password_hash(password): a hash of the password under a fresh
\* salt; check_password_hash(hash, password).
GeneratePasswordHash(password, salt) == [password |-> password, salt |-> salt]
CheckPasswordHash(hash, password) == hash.password = password

\* A User; `nonce` gives its uuid4 and its hash's salt.
NewUser(nonce, email, password, name, is_admin) ==
    [id              |-> nonce,
     email           |-> Strip(email),
     hashed_password |-> GeneratePasswordHash(password, nonce),
     name            |-> name,
     is_admin        |-> is_admin,
     favorites       |-> {}]
NoUser == NewUser(0, NoEmail, "", "", FALSE)

\* The look-up comparing the addresses as they are written.
GetByEmailExact(list, email) ==
    LET found == {i \in DOMAIN list : list[i].email = Strip(email)}
    IN  IF found = {} THEN 0
        ELSE CHOOSE i \in found : \A j \in found : i <= j

\* get_by_email on a loaded list: the index of the first user whose
\* email.lower() is email.lower().strip(); 0 stands for None.
GetByEmail(list, email) ==
    LET found == {i \in DOMAIN list :
                      Lower(list[i].email) = Strip(Lower(email))}
    IN  IF found = {} THEN 0
        ELSE CHOOSE i \in found : \A j \in found : i <= j

\* _find_index_by_id: the index of the first user with the id; 0 stands
\* for None.
FindIndexById(list, user_id) ==
    LET found == {i \in DOMAIN list : list[i].id = user_id}
    IN  IF found = {} THEN 0
        ELSE CHOOSE i \in found : \A j \in found : i <= j

\* update_user's changes to one user: `updates` has `keys`, and a value
\* for each; a password that is empty changes nothing.
Updated(user, updates, salt) ==
    [user EXCEPT
        !.name = IF "name" \in updates.keys THEN updates.name ELSE @,
        !.hashed_password =
            IF "password" \in updates.keys /\ updates.password # ""
            THEN GeneratePasswordHash(updates.password, salt) ELSE @,
        !.is_admin =
            IF "is_admin" \in updates.keys THEN updates.is_admin ELSE @]
Rehashes(updates) == "password" \in updates.keys /\ updates.password # ""

\* toggle_favorite's change to one user, and what it returns.
Toggled(user, item_id) ==
    [user EXCEPT !.favorites = IF item_id \in @ THEN @ \ {item_id}
                               ELSE @ \cup {item_id}]
ToggleResult(user, item_id) ==
    IF item_id \in user.favorites THEN "False" ELSE "True"

\* users.pop(idx)
Popped(list, idx) ==
    [i \in 1..(Len(list) - 1) |-> IF i < idx THEN list[i] ELSE list[i + 1]]

\* _ensure_admin_account(email, password) on the store st = [users,
\* minted]: an existing account gets the password when its hash does not
\* verify it, and the admin flag, and is saved when either changed; a
\* missing one is added as an admin named "Admin".
EnsureAdminAccount(st, email, password) ==
    LET idx == GetByEmail(st.users, email)
    IN  IF idx # 0
        THEN LET existing == st.users[idx]
                 rehash   == /\ password # ""
                             /\ ~CheckPasswordHash(existing.hashed_password,
                                                   password)
                 changed  ==
                     [existing EXCEPT
                         !.hashed_password =
                             IF rehash
                             THEN GeneratePasswordHash(password,
                                                       st.minted + 1)
                             ELSE @,
                         !.is_admin = TRUE]
                 requires_save == rehash \/ ~existing.is_admin
                 at == FindIndexById(st.users, existing.id)
             IN  [users  |-> IF requires_save /\ at # 0
                             THEN [st.users EXCEPT ![at] = changed]
                             ELSE st.users,
                  minted |-> IF rehash THEN st.minted + 1 ELSE st.minted]
        ELSE [users  |-> Append(st.users,
                                NewUser(st.minted + 1, email, password,
                                        "Admin", TRUE)),
              minted |-> st.minted + 1]

\* ensure_default_admin's admin_targets for the environment env: the
\* address of ADMIN_EMAIL when it is set and valid, with ADMIN_PASSWORD or
\* else the default password; then the default address with the default
\* password.
AdminTargets(env) ==
    (IF ValidEmail(env.email)
     THEN <<[email    |-> Strip(env.email),
             password |-> IF env.password # "" THEN env.password
                          ELSE DEFAULT_ADMIN_PASSWORD]>>
     ELSE <<>>)
    \o <<[email |-> DEFAULT_ADMIN_EMAIL, password |-> DEFAULT_ADMIN_PASSWORD]>>

\* The loop of ensure_default_admin over the targets from the k-th on,
\* `seen` holding the addresses done: an address in `seen` is skipped.
RECURSIVE EnsureTargets(_, _, _, _)
EnsureTargets(st, targets, k, seen) ==
    IF k > Len(targets) THEN st
    ELSE IF targets[k].email \in seen
         THEN EnsureTargets(st, targets, k + 1, seen)
         ELSE EnsureTargets(
                  EnsureAdminAccount(st, targets[k].email,
                                     targets[k].password),
                  targets, k + 1, seen \cup {targets[k].email})

\* authenticate(email, password): the user found by the address when the
\* password verifies against its hash; 0 stands for None.
Authenticate(list, email, password) ==
    LET idx == GetByEmail(list, email)
    IN  IF idx # 0 /\ CheckPasswordHash(list[idx].hashed_password, password)
        THEN idx ELSE 0

\* os.environ without ADMIN_EMAIL and ADMIN_PASSWORD.
NoEnviron == [email |-> NoEmail, password |-> ""]

\* A thread that is in no call of the store, and no call yet ended.
Threads == 1..MaxThreads
IdleThread ==
    [pc |-> "idle", op |-> "none", email |-> NoEmail, id |-> 0,
     item |-> "", user |-> NoUser, loaded |-> <<>>, result |-> "none"]
NoLast == [op |-> "none", email |-> NoEmail, id |-> 0, result |-> "none"]

\* -------------------------------------------------------------- state
VARIABLES
    config,            \* self.config
    cpu_count,         \* os.cpu_count(); 0 stands for None
    has_close,         \* hasattr(self.identification_manager, "close")
    shutdown_event,    \* self.shutdown_event.is_set()
    executor_down,     \* self.executor has been shut down
    other_pc,          \* where a second, concurrent process_input stands
    pc,                \* where the call in progress stands
    call,              \* the method the caller invoked
    runs,              \* calls made so far
    input,             \* the input of the call in progress
    local_path,        \* process_input's local_path
    source_path,       \* process_input's source_path
    segment_params,    \* split_audio's segment_params
    current_time,      \* split_audio's current_time
    job,               \* per plan: "queued", "running" or "done"
    future_segments,   \* per plan: the worker's result
    audio_segments,    \* what split_audio returned
    tracks,            \* what identify_tracks returned
    pending,           \* "ok", or the exception leaving the try block
    outcome,           \* how the last call ended: "ok" or the exception
    context,           \* TrackIdentificationError.context
    temp_exists,       \* temp_dir.exists()
    temp_files,        \* the files of temp_dir: [name, size, from, made]
    todo,              \* cleanup: entries of the glob not yet visited
    trace,             \* stages entered by the call in progress, in order
    cleanups,          \* times cleanup was entered in this call
    identify_calls,    \* the arguments of identify_tracks in this call
    save_calls,        \* the serializer calls of this call
    transcodes,        \* per plan: transcoder invocations in this call
    overtook,          \* a worker ended while an earlier plan's still ran
    rm_failed,         \* a removal failed in this call's cleanup
    close_calls,       \* close-hook invocations in this call
    close_failed,      \* the close hook raised in this call
    stage_result,      \* what left the try block, as the finally clause saw it
    identified,        \* how identify_tracks ended: "empty", "tracks", "raised"
    valid_at_start,    \* names of the valid segment files when the call began
    prev,              \* what the previous call was: [call, path, failed]
    mix_metadata,      \* self.original_title, self.uploader, self.duration
    resolved,          \* what this call's own input resolved to
    exports,           \* what each save_output of this call logged and returned
    removals,          \* cleanup in progress: its removals of temp_dir itself
    users,             \* UserStore: the user list its storage holds
    minted,            \* UserStore: ids and salts generated so far
    environ,           \* os.environ: ADMIN_EMAIL and ADMIN_PASSWORD
    threads,           \* UserStore: per thread, the call it is in
    last               \* UserStore: the last call that ended, and how

env      == <<config, cpu_count, has_close>>
signal   == <<shutdown_event, executor_down, other_pc>>
control  == <<pc, call, runs, input>>
paths    == <<local_path, source_path>>
pool     == <<segment_params, current_time, job, future_segments, transcodes,
              overtook>>
results  == <<audio_segments, tracks, pending, outcome, context>>
tempdir  == <<temp_exists, temp_files, todo>>
history  == <<trace, cleanups, identify_calls, save_calls, rm_failed,
              close_calls, close_failed, stage_result, identified,
              valid_at_start, prev>>
mixstate == <<mix_metadata, resolved, exports>>
app      == <<env, signal, control, paths, pool, results, tempdir, history,
              mixstate, removals>>
store    == <<users, minted, environ, threads, last>>
vars     == <<app, store>>

NoPrev == [call |-> "none", path |-> NoPath]
NoContext == [segments_created |-> 0, input_path |-> NoPath]

\* No value for a duration: None, or the key or attribute is not there.
NoDuration == [kind |-> "none", value |-> 0]

\* The attributes before any _set_mix_metadata: getattr's defaults (None,
\* "", None), all of them falsy like the empty title and the duration 0.
NoMixMetadata == [title |-> <<>>, artist |-> <<>>, duration |-> 0]
NotResolved == [given |-> Given("none", NoMetadata, NoAttrs, NoPath),
                title |-> <<>>, artist |-> <<>>, duration |-> 0,
                raw |-> NoDuration]

\* A freshly constructed AsyncApp and its surroundings, whatever config it
\* was given.
Constructed ==
    /\ cpu_count \in {0, 1}
    /\ has_close \in BOOLEAN
    /\ shutdown_event = FALSE
    /\ executor_down = FALSE
    /\ other_pc = "none"
    /\ pc = "idle"
    /\ call = "none"
    /\ runs = 0
    /\ input = CHOOSE i \in Inputs : ~i.valid
    /\ local_path = NoPath
    /\ source_path = NoPath
    /\ segment_params = <<>>
    /\ current_time = 0
    /\ job = <<>>
    /\ future_segments = <<>>
    /\ transcodes = <<>>
    /\ overtook = FALSE
    /\ audio_segments = <<>>
    /\ tracks = <<>>
    /\ pending = "none"
    /\ outcome = "none"
    /\ context = NoContext
    /\ temp_exists \in BOOLEAN
    /\ temp_files = {}
    /\ todo = <<>>
    /\ trace = <<>>
    /\ cleanups = 0
    /\ identify_calls = <<>>
    /\ save_calls = <<>>
    /\ rm_failed = FALSE
    /\ close_calls = 0
    /\ close_failed = FALSE
    /\ stage_result = "none"
    /\ identified = "none"
    /\ valid_at_start = {}
    /\ prev = NoPrev
    /\ mix_metadata = NoMixMetadata
    /\ resolved = NotResolved
    /\ exports = <<>>
    /\ removals = <<>>

\* UserStore(): ensure_file([]) leaves a new store with the empty list.
StoreConstructed ==
    /\ users = <<>>
    /\ minted = 0
    /\ environ = NoEnviron
    /\ threads = [t \in Threads |-> IdleThread]
    /\ last = NoLast

Init ==
    /\ config \in {c \in Configs : ValidConfig(c)}
    /\ Constructed
    /\ StoreConstructed


\* ---------------------------------------------------- process_input
\* The call's ended state: it returned or raised to its caller.
Ended == pc = "idle" /\ call = "process_input"

\* temp_dir.glob("*"): the names of the directory's entries, listed once.
\* The order is the file system's; the entries are removed independently
\* of each other, and the model lists them in one fixed order.
RECURSIVE GlobOrder(_)
GlobOrder(files) ==
    IF files = {} THEN <<>>
    ELSE LET f == CHOOSE g \in files :
                      \A h \in files : g.name[2] <= h.name[2]
         IN  <<f.name>> \o GlobOrder(files \ {f})

\* process_input with cleanup after the try block instead of in a finally
\* clause: an exception leaves the call at once.
EnterCleanupUnlessRaised(err, tr, exists) ==
    /\ pending' = err
    /\ stage_result' = err
    /\ IF err = "ok"
       THEN /\ outcome' = outcome
            /\ trace' = Append(tr, "CleaningUp")
            /\ cleanups' = cleanups + 1
            /\ IF exists
               THEN pc' = "cleanup_files" /\ todo' = GlobOrder(temp_files)
               ELSE pc' = "closing" /\ todo' = <<>>
       ELSE /\ outcome' = err
            /\ trace' = tr
            /\ cleanups' = cleanups
            /\ pc' = "idle"
            /\ todo' = <<>>

\* The finally clause of process_input: whatever left the try block (err is
\* "ok" or the exception, re-raised by the except clause), cleanup is
\* entered, first on the temp directory when it exists.
EnterCleanup(err, tr, exists) ==
    /\ pending' = err
    /\ stage_result' = err
    /\ outcome' = outcome
    /\ trace' = Append(tr, "CleaningUp")
    /\ cleanups' = cleanups + 1
    /\ IF exists
       THEN pc' = "cleanup_files" /\ todo' = GlobOrder(temp_files)
       ELSE pc' = "closing" /\ todo' = <<>>

\* A step that stays inside the try block.
InTry == UNCHANGED <<pending, stage_result, outcome, cleanups, todo>>

\* The caller invokes process_input(input_path).
CallProcessInput(i) ==
    /\ pc = "idle"
    /\ runs < MaxCalls
    /\ runs' = runs + 1
    /\ call' = "process_input"
    /\ input' = i
    /\ pc' = "resolving"
    /\ trace' = <<"Resolving">>
    /\ prev' = [call |-> call, path |-> local_path]
    /\ valid_at_start' = {f.name : f \in {g \in temp_files : g.size > MinSize}}
    /\ local_path' = NoPath
    /\ source_path' = NoPath
    /\ segment_params' = <<>>
    /\ current_time' = 0
    /\ job' = <<>>
    /\ future_segments' = <<>>
    /\ transcodes' = <<>>
    /\ overtook' = FALSE
    /\ audio_segments' = <<>>
    /\ tracks' = <<>>
    /\ pending' = "none"
    /\ outcome' = "none"
    /\ context' = NoContext
    /\ todo' = <<>>
    /\ cleanups' = 0
    /\ identify_calls' = <<>>
    /\ save_calls' = <<>>
    /\ rm_failed' = FALSE
    /\ close_calls' = 0
    /\ close_failed' = FALSE
    /\ stage_result' = "none"
    /\ identified' = "none"
    /\ resolved' = NotResolved
    /\ exports' = <<>>
    /\ removals' = <<>>
    /\ UNCHANGED <<store, env, signal, temp_exists, temp_files, mix_metadata>>

\* _handle_local_file without its test of the file's existence.
LocalFileUnchecked(i) == FALSE

\* _handle_local_file: not Path(validated_path).exists()
LocalFileMissing(i) == ~i.exists

\* _prepare_input up to its first suspension point: validate_input, then
\* _handle_local_file, or _handle_remote_file up to the download.
PrepareInput ==
    /\ pc = "resolving"
    /\ IF ~input.valid
       THEN /\ EnterCleanup("ValueError: Invalid URL or file path provided",
                            trace, temp_exists)
            /\ UNCHANGED <<paths, mix_metadata, resolved>>
       ELSE IF input.is_local
       THEN IF LocalFileMissing(input)
            THEN /\ EnterCleanup("FileNotFoundError", trace, temp_exists)
                 /\ UNCHANGED <<paths, mix_metadata, resolved>>
            ELSE /\ local_path' = input.validated
                 /\ source_path' = input.validated
                 /\ mix_metadata' = SetMixMetadata(Stem(input.validated),
                                                   UnknownArtist, NoDuration)
                 /\ resolved' = Resolution(Given("local", NoMetadata, NoAttrs,
                                                 input.validated),
                                           Stem(input.validated),
                                           UnknownArtist, NoDuration)
                 /\ pc' = "segmenting"
                 /\ trace' = Append(trace, "Segmenting")
                 /\ InTry
       ELSE IF ~input.downloader
            THEN /\ EnterCleanup("ValueError: Failed to create downloader",
                                 trace, temp_exists)
                 /\ UNCHANGED <<paths, mix_metadata, resolved>>
            ELSE /\ pc' = "downloading"
                 /\ InTry
                 /\ UNCHANGED <<paths, trace, mix_metadata, resolved>>
    /\ UNCHANGED <<store, env, exports, removals, signal, call, runs, input, pool,
                   audio_segments, tracks, context, temp_exists, temp_files, identify_calls,
                   save_calls, rm_failed, close_calls, close_failed,
                   identified, valid_at_start, prev>>

\* downloader.download returns: a local path, or None. With a path the
\* downloader's metadata md (or its attributes dl) become the mix metadata.
DownloadReturns(p, md, dl) ==
    /\ pc = "downloading"
    /\ IF p = NoPath
       THEN /\ EnterCleanup("ValueError: local_path cannot be None",
                            trace, temp_exists)
            /\ UNCHANGED <<paths, mix_metadata, resolved>>
       ELSE /\ local_path' = p
            /\ source_path' = input.validated
            /\ mix_metadata' = SetMixMetadata(DownloaderTitle(md, dl, p),
                                              DownloaderUploader(md, dl),
                                              DownloaderDuration(md, dl))
            /\ resolved' = Resolution(Given("remote", md, dl, p),
                                      DownloaderTitle(md, dl, p),
                                      DownloaderUploader(md, dl),
                                      DownloaderDuration(md, dl))
            /\ pc' = "segmenting"
            /\ trace' = Append(trace, "Segmenting")
            /\ InTry
    /\ UNCHANGED <<store, env, exports, removals, signal, call, runs, input, pool,
                   audio_segments, tracks, context, temp_exists, temp_files, identify_calls,
                   save_calls, rm_failed, close_calls, close_failed,
                   identified, valid_at_start, prev>>

\* downloader.download raises.
DownloadRaises ==
    /\ pc = "downloading"
    /\ EnterCleanup("DownloadError", trace, temp_exists)
    /\ UNCHANGED <<store, env, mixstate, removals, signal, call, runs, input, paths, pool,
                   audio_segments, tracks, context, temp_exists, temp_files,
                   identify_calls, save_calls, rm_failed, close_calls,
                   close_failed, identified, valid_at_start, prev>>


\* ------------------------------------------------------- split_audio
\* process_input without its test on what split_audio returned.
NoSegmentsUnchecked(segments) == FALSE

\* process_input's test on what split_audio returned: if not audio_segments
NoSegments(segments) == segments = <<>>

\* What follows split_audio's return of `segments`. Called directly, the
\* caller gets them. In process_input an empty list raises ValueError("No
\* audio segments were created"); otherwise identify_tracks is called with
\* the list and awaited.
AfterSplit(segments, exists) ==
    /\ audio_segments' = segments
    /\ IF call = "split_audio"
       THEN /\ pc' = "idle"
            /\ outcome' = "ok"
            /\ UNCHANGED <<pending, stage_result, trace, cleanups, todo,
                           identify_calls>>
       ELSE IF NoSegments(segments)
       THEN /\ EnterCleanup("ValueError: No audio segments were created",
                            trace, exists)
            /\ UNCHANGED identify_calls
       ELSE /\ pc' = "recognizing"
            /\ trace' = Append(trace, "Recognizing")
            /\ identify_calls' = Append(identify_calls, segments)
            /\ InTry

\* The probe with a missing length's AttributeError not caught.
ProbeErrorUncaught(kind) ==
    IF kind = "ioerror" THEN "MutagenError"
    ELSE IF kind = "noinfo" THEN "AttributeError"
    ELSE "none"

\* What File(file_path) and audio.info.length raise out of split_audio for
\* a file of this kind: File()'s own error when the file cannot be opened
\* (nothing catches it); the AttributeError of a missing length is caught.
ProbeError(kind) ==
    IF kind = "ioerror" THEN "MutagenError" ELSE "none"

\* The caller invokes split_audio(file_path) itself.
CallSplitAudio(p) ==
    /\ pc = "idle"
    /\ runs < MaxSplits
    /\ runs' = runs + 1
    /\ call' = "split_audio"
    /\ pc' = "segmenting"
    /\ trace' = <<>>
    /\ prev' = [call |-> call, path |-> local_path]
    /\ valid_at_start' = {f.name : f \in {g \in temp_files : g.size > MinSize}}
    /\ local_path' = p
    /\ source_path' = NoPath
    /\ segment_params' = <<>>
    /\ current_time' = 0
    /\ job' = <<>>
    /\ future_segments' = <<>>
    /\ transcodes' = <<>>
    /\ overtook' = FALSE
    /\ audio_segments' = <<>>
    /\ tracks' = <<>>
    /\ pending' = "none"
    /\ outcome' = "none"
    /\ context' = NoContext
    /\ todo' = <<>>
    /\ cleanups' = 0
    /\ identify_calls' = <<>>
    /\ save_calls' = <<>>
    /\ rm_failed' = FALSE
    /\ close_calls' = 0
    /\ close_failed' = FALSE
    /\ stage_result' = "none"
    /\ identified' = "none"
    /\ resolved' = NotResolved
    /\ exports' = <<>>
    /\ removals' = <<>>
    /\ UNCHANGED <<store, env, signal, input, temp_exists, temp_files,
                   mix_metadata>>

\* split_audio up to the worker pool: File(file_path) and its info.length,
\* the temp directory, the planning loop, and the pool's set-up. An unknown
\* file type or a missing length returns []; so does the except clause
\* around the pool when os.cpu_count() is None or max_workers is 0 (the
\* executor refuses it). An exception of File() leaves split_audio.
SplitAudio ==
    /\ pc = "segmenting"
    /\ LET kind     == local_path[2]
           duration == local_path[3]
           step     == Step(Sec(config.segment_length),
                                Sec(config.overlap_duration))
           params   == SegmentParams(0, duration,
                                     Sec(config.segment_length), step)
       IN  IF ProbeError(kind) # "none"
           THEN /\ IF call = "split_audio"
                   THEN /\ pc' = "idle"
                        /\ outcome' = ProbeError(kind)
                        /\ UNCHANGED <<pending, stage_result, trace,
                                       cleanups, todo>>
                   ELSE EnterCleanup(ProbeError(kind), trace, temp_exists)
                /\ UNCHANGED <<pool, audio_segments, identify_calls,
                               temp_exists>>
           ELSE IF kind # "audio"
           THEN /\ AfterSplit(<<>>, temp_exists)
                /\ UNCHANGED <<pool, temp_exists>>
           ELSE /\ temp_exists' = TRUE
                /\ segment_params' = params
                /\ current_time' = Len(params) * step
                /\ UNCHANGED overtook
                /\ IF cpu_count = 0 \/ MaxWorkers(cpu_count, params) = 0
                   THEN /\ AfterSplit(<<>>, TRUE)
                        /\ UNCHANGED <<job, future_segments, transcodes>>
                   ELSE /\ pc' = "pool"
                        /\ job' = [i \in 1..Len(params) |-> "queued"]
                        /\ future_segments' =
                               [i \in 1..Len(params) |-> NoSegment]
                        /\ transcodes' = [i \in 1..Len(params) |-> 0]
                        /\ InTry
                        /\ UNCHANGED <<audio_segments, trace,
                                       identify_calls>>
    /\ UNCHANGED <<store, env, mixstate, removals, signal, call, runs, input, paths, tracks, context,
                   temp_files, save_calls, rm_failed, close_calls,
                   close_failed, identified, valid_at_start, prev>>

Running == {i \in DOMAIN job : job[i] = "running"}
Done == {i \in DOMAIN job : job[i] = "done"}

\* The results gathered as the workers end (as_completed), not by plan.
ResultSlotAsCompleted(i, done) == Cardinality(done) + 1

\* list(executor.map(create_segment, segment_params)): the result of plan i
\* is the i-th of future_segments, whichever workers ended before it.
ResultSlot(i, done) == i

\* The file `name` of the temp directory after a transcoder run wrote
\* `size` bytes to it (-y overwrites); size 0 stands for nothing written.
\* `from` is the input it was cut from and `made` the worker's result.
Written(files, name, size, from, made) ==
    IF size = 0 THEN files
    ELSE {f \in files : f.name # name}
             \cup {[name |-> name, size |-> size, from |-> from,
                    made |-> made]}

\* What create_segment returns after subprocess.run: the segment when the
\* transcoder exited with 0 and the output file is there and large enough,
\* None after CalledProcessError, any other exception, or a bad file.
SegmentAfterRun(params, rc, files) ==
    IF rc = 0 /\ ValidOutput(files, params.file)
    THEN AudioSegment(params) ELSE NoSegment

\* A pool thread takes the next plan (executor.map submits them in order
\* and the pool's queue is first in, first out) and runs create_segment up
\* to subprocess.run: an output file that exists with more than MinSize
\* bytes is reused and the worker is done; otherwise the transcoder starts.
WorkerStart(i) ==
    /\ pc = "pool"
    /\ i \in DOMAIN job
    /\ job[i] = "queued"
    /\ \A j \in 1..(i - 1) : job[j] # "queued"
    /\ Cardinality(Running) < MaxWorkers(cpu_count, segment_params)
    /\ IF Reusable(temp_files, segment_params[i].file)
       THEN /\ job' = [job EXCEPT ![i] = "done"]
            /\ future_segments' =
                   [future_segments EXCEPT
                       ![ResultSlot(i, Done)] = AudioSegment(segment_params[i])]
            /\ UNCHANGED transcodes
       ELSE /\ job' = [job EXCEPT ![i] = "running"]
            /\ transcodes' = [transcodes EXCEPT ![i] = @ + 1]
            /\ UNCHANGED future_segments
    /\ UNCHANGED <<store, env, mixstate, removals, signal, control, paths, segment_params, current_time,
                   overtook, results, tempdir, history>>

\* A plan whose transcode failed queued again.
JobAfterRetry(segment) == IF segment = NoSegment THEN "queued" ELSE "done"

\* create_segment returns after one subprocess.run, whatever its result:
\* the plan's job is done.
JobAfter(segment) == "done"

\* subprocess.run of plan i ends: exit code rc (2 stands for an exception
\* other than CalledProcessError, nothing written), `size` bytes written.
WorkerFinish(i, rc, size) ==
    /\ pc = "pool"
    /\ i \in DOMAIN job
    /\ job[i] = "running"
    /\ rc = 2 => size = 0
    /\ future_segments' =
           [future_segments EXCEPT
               ![ResultSlot(i, Done)] = SegmentAfterRun(
                          segment_params[i], rc,
                          Written(temp_files, segment_params[i].file, size,
                                  local_path, NoSegment))]
    /\ temp_files' = Written(temp_files, segment_params[i].file, size,
                             local_path,
                             future_segments'[ResultSlot(i, Done)])
    /\ job' = [job EXCEPT ![i] = JobAfter(future_segments'[ResultSlot(i, Done)])]
    /\ overtook' = (overtook \/ \E j \in 1..(i - 1) : job[j] = "running")
    /\ UNCHANGED <<store, env, mixstate, removals, signal, control, paths, segment_params, current_time,
                   transcodes, results, temp_exists, todo, history>>

\* The results taken as soon as every plan was handed to a worker.
DrainedWhenSubmitted(jobs) == \A i \in DOMAIN jobs : jobs[i] # "queued"

\* list(executor.map(...)) has every result, and the with block's exit
\* (shutdown(wait=True)) has waited for every worker.
Drained(jobs) == \A i \in DOMAIN jobs : jobs[i] = "done"

\* The with block of the pool ends when every worker is done; split_audio
\* returns the segments that are not None, in the order of the plans.
PoolDrained ==
    /\ pc = "pool"
    /\ Drained(job)
    /\ AfterSplit(FilterSegments(future_segments), temp_exists)
    /\ UNCHANGED <<store, env, mixstate, removals, signal, call, runs, input, paths, pool, tracks,
                   context, temp_exists, temp_files, save_calls, rm_failed,
                   close_calls, close_failed, identified, valid_at_start,
                   prev>>

\* -------------------------------------------- split_audio's planning loop
\* split_audio from its call to the loop: File(file_path) is an audio file
\* with a length, the temp directory is made, segment_params = [] and
\* current_time = 0.
PlanBegin ==
    /\ pc = "segmenting"
    /\ call = "split_audio"
    /\ local_path[2] = "audio"
    /\ temp_exists' = TRUE
    /\ segment_params' = <<>>
    /\ current_time' = 0
    /\ pc' = "planning"
    /\ UNCHANGED <<store, env, mixstate, removals, signal, call, runs, input, paths, job,
                   future_segments, transcodes, overtook, results,
                   temp_files, todo, history>>

\* One turn of the loop: the entry for current_time is appended and
\* current_time += step. (No file of the model has more than
\* MaxPlanDuration + 1 windows.)
PlanStep ==
    /\ pc = "planning"
    /\ InLoop(current_time, local_path[3])
    /\ Len(segment_params) <= MaxPlanDuration
    /\ segment_params' =
           Append(segment_params,
                  Plan(current_time,
                       SegmentLength(Sec(config.segment_length),
                                     local_path[3], current_time),
                       local_path[3]))
    /\ current_time' = current_time + Step(Sec(config.segment_length),
                                           Sec(config.overlap_duration))
    /\ UNCHANGED <<store, env, mixstate, removals, signal, control, paths, job, future_segments,
                   transcodes, overtook, results, tempdir, history>>

\* The loop's test fails: the plans are complete.
PlanEnd ==
    /\ pc = "planning"
    /\ ~InLoop(current_time, local_path[3])
    /\ pc' = "planned"
    /\ UNCHANGED <<store, env, mixstate, removals, signal, call, runs, input, paths, pool, results,
                   tempdir, history>>


\* ---------------------------------------------------- identify_tracks
\* process_input without its test on what identify_tracks returned.
NoTracksUnchecked(ts) == FALSE

\* process_input's test on what identify_tracks returned: if not tracks
NoTracks(ts) == ts = <<>>

\* The context with local_path where source_path belongs.
ErrorContextLocal(segments, source, local) ==
    [segments_created |-> Len(segments), input_path |-> local]

\* The context of the TrackIdentificationError process_input raises.
ErrorContext(segments, source, local) ==
    [segments_created |-> Len(segments), input_path |-> source]

\* identify_tracks returns ts. No tracks: TrackIdentificationError with
\* its context; otherwise the run goes on to save_output.
IdentifyReturns(ts) ==
    /\ pc = "recognizing"
    /\ identified' = IF ts = <<>> THEN "empty" ELSE "tracks"
    /\ tracks' = ts
    /\ IF NoTracks(ts)
       THEN /\ context' = ErrorContext(audio_segments, source_path, local_path)
            /\ EnterCleanup("TrackIdentificationError", trace, temp_exists)
       ELSE /\ pc' = "exporting"
            /\ trace' = Append(trace, "Exporting")
            /\ InTry
            /\ UNCHANGED context
    /\ UNCHANGED <<store, env, mixstate, removals, signal, call, runs, input, paths, pool,
                   audio_segments, temp_exists, temp_files, identify_calls,
                   save_calls, rm_failed, close_calls, close_failed,
                   valid_at_start, prev>>

\* identify_tracks raises.
IdentifyRaises ==
    /\ pc = "recognizing"
    /\ identified' = "raised"
    /\ EnterCleanup("IdentificationError", trace, temp_exists)
    /\ UNCHANGED <<store, env, mixstate, removals, signal, call, runs, input, paths, pool,
                   audio_segments, tracks, context, temp_exists, temp_files,
                   identify_calls, save_calls, rm_failed, close_calls,
                   close_failed, valid_at_start, prev>>

\* -------------------------------------------------------- save_output
\* save_output without its try block: the serializer's exception leaves it.
SaveOutputPropagates(how) ==
    IF how = "throws" THEN "SerializerError" ELSE "ok"

\* What leaves save_output when the serializer call ended `how`: "saved"
\* (a path, or a non-empty list of paths), "nothing" (None, or an empty
\* list) or "throws". The try block of save_output catches every Exception,
\* so nothing is raised.
SaveOutputRaises(how) == "ok"

\* A format argument: a string, or a value that is no string.
Str(text) == [str |-> TRUE, text |-> text]
NotAString == [str |-> FALSE, text |-> ""]

\* The output formats there are (save_output's docstring), in the order
\* save_all goes through them.
SupportedFormats == <<"json", "markdown", "m3u">>

\* How the serializer of each format ends when it is run: a file is
\* "saved", "nothing" is written, or it "throws".
SerializerOutcomes == [Range(SupportedFormats) -> {"saved", "nothing", "throws"}]

\* The ones an export of process_input is run with.
ExportOutcomes ==
    {[f \in Range(SupportedFormats) |-> "saved"],
     [f \in Range(SupportedFormats) |-> "nothing"],
     [f \in Range(SupportedFormats) |->
         IF f = "json" THEN "saved"
         ELSE IF f = "markdown" THEN "throws" ELSE "nothing"]}

\* The ones save_output is run with when it is called directly.
SaveOutcomes ==
    ExportOutcomes
    \cup {[f \in Range(SupportedFormats) |-> "throws"],
          [f \in Range(SupportedFormats) |->
              IF f = "json" THEN "throws" ELSE "saved"]}

\* TracklistOutput.save_all(): every supported format is serialized, a
\* format that fails or throws is reported and left out, and the paths of
\* the saved files are returned.
SaveAll(outs) == SelectSeq(SupportedFormats, LAMBDA f : outs[f] = "saved")

\* TracklistOutput.save(format): the serializer of a supported format is
\* run and its file's path returned, or None when nothing was written; an
\* unsupported format runs no serializer and returns None.
Save(text, outs) ==
    IF text \in Range(SupportedFormats) /\ outs[text] = "saved"
    THEN <<text>> ELSE <<>>

\* The formats whose serializer a call of the backend runs.
Serialized(method, text) ==
    IF method = "save_all" THEN Range(SupportedFormats)
    ELSE Range(SupportedFormats) \cap {text}

\* save_output going on with no tracks.
EmptyTracksUnchecked(ts) == FALSE

\* save_output: len(tracks) == 0
EmptyTracks(ts) == Len(ts) = 0

\* save_output: not isinstance(format, str)
InvalidFormatType(format) == ~format.str

\* save_output never using save_all.
SaveAllNever(format) == FALSE

\* save_output: format == "all"
SaveAllRequested(format) == format.text = "all"

\* The title taken from the first track before the stored one.
MixTitleFromTrack(stored, ts) ==
    IF ts # <<>> /\ ts[1].artist # "" /\ ts[1].song_name # ""
    THEN <<ts[1].artist, " - ", ts[1].song_name>>
    ELSE IF stored # <<>> THEN stored ELSE <<"Identified Mix">>

\* save_output's title: self.original_title when it is set and not empty,
\* else "artist - song_name" of the first track when both are not empty,
\* else "Identified Mix".
MixTitle(stored, ts) ==
    IF stored # <<>> THEN stored
    ELSE IF ts # <<>> /\ ts[1].artist # "" /\ ts[1].song_name # ""
    THEN <<ts[1].artist, " - ", ts[1].song_name>>
    ELSE <<"Identified Mix">>

\* The mix info with a duration whatever the stored one is.
BuildMixInfoAlways(title, ts, meta) ==
    [title |-> title, artist |-> meta.artist, track_count |-> Len(ts),
     has_duration |-> TRUE, duration |-> meta.duration]

\* _build_mix_info(title, tracks): the duration is added when
\* self.duration is truthy (and float() of it succeeds, as it does of the
\* float _set_mix_metadata stored). The date is left out of the model.
BuildMixInfo(title, ts, meta) ==
    [title |-> title, artist |-> meta.artist, track_count |-> Len(ts),
     has_duration |-> meta.duration # 0, duration |-> meta.duration]

LogEntry(level, what, path) == [level |-> level, what |-> what, path |-> path]

\* The call save_output makes of the backend: output.save_all() for "all",
\* output.save(format) otherwise. `crash`: the call raises as a whole,
\* before any serializer. `ran`: the serializers run and how each ended.
BackendCall(ts, format, outs, crash, meta) ==
    LET method == IF SaveAllRequested(format) THEN "save_all" ELSE "save"
        saved  == IF method = "save_all" THEN SaveAll(outs)
                  ELSE Save(format.text, outs)
        throws == \/ crash
                  \/ /\ method = "save"
                     /\ format.text \in Range(SupportedFormats)
                     /\ outs[format.text] = "throws"
    IN  [method   |-> method,
         format   |-> format.text,
         mix_info |-> BuildMixInfo(MixTitle(meta.title, ts), ts, meta),
         ran      |-> [f \in IF crash THEN {}
                               ELSE Serialized(method, format.text) |-> outs[f]],
         saved    |-> IF throws THEN <<>> ELSE saved,
         ended    |-> IF throws THEN "throws"
                      ELSE IF saved # <<>> THEN "saved" ELSE "nothing"]

\* What save_output logs after the backend's call.
SaveOutputLog(c) ==
    IF c.ended = "throws" THEN <<LogEntry("error", "Error saving tracklist", "")>>
    ELSE IF c.method = "save_all"
    THEN IF c.saved # <<>>
         THEN [k \in DOMAIN c.saved |->
                  LogEntry("debug", "Saved tracklist to", c.saved[k])]
         ELSE <<LogEntry("error", "Failed to save tracklist in any format", "")>>
    ELSE IF c.saved # <<>>
         THEN <<LogEntry("info", "Saved tracklist to", c.saved[1])>>
         ELSE <<LogEntry("error", "Failed to save tracklist in format", "")>>

\* save_output(tracks, format) as a whole: the backend calls it makes, what
\* it logs, the paths it returns (it has no return statement: none) and
\* what it raises.
SaveOutputRun(ts, format, outs, crash, meta) ==
    IF EmptyTracks(ts)
    THEN [calls  |-> <<>>,
          logged |-> <<LogEntry("error", "Cannot save output: No tracks provided", "")>>,
          returned |-> <<>>, raised |-> "ok"]
    ELSE IF InvalidFormatType(format)
    THEN [calls  |-> <<>>,
          logged |-> <<LogEntry("error", "invalid format type", "")>>,
          returned |-> <<>>, raised |-> "ok"]
    ELSE LET c == BackendCall(ts, format, outs, crash, meta)
         IN  [calls  |-> <<c>>,
              logged |-> SaveOutputLog(c),
              returned |-> <<>>,
              raised |-> SaveOutputRaises(c.ended)]

\* The record `exports` keeps of one save_output: its format argument and
\* what it logged, returned and raised.
Export(format, run) ==
    [format |-> format, logged |-> run.logged, returned |-> run.returned,
     raised |-> run.raised]

\* await self.save_output(tracks, self.config.output_format), the last
\* statement of process_input's try block.
SaveOutput(outs, crash) ==
    /\ pc = "exporting"
    /\ LET run == SaveOutputRun(tracks, Str(config.output_format), outs,
                                crash, mix_metadata)
       IN  /\ save_calls' = save_calls \o run.calls
           /\ exports' = Append(exports,
                                 Export(Str(config.output_format), run))
           /\ EnterCleanup(run.raised, trace, temp_exists)
    /\ tracks' = <<>>
    /\ UNCHANGED <<store, env, mix_metadata, resolved, removals, signal, call, runs,
                   input, paths, pool, audio_segments, context, temp_exists,
                   temp_files, identify_calls, rm_failed, close_calls,
                   close_failed, identified, valid_at_start, prev>>

\* The track lists save_output is called with directly: none, or a first
\* track with or without artist and song name, followed by tracks "C - D".
SaveTrackLists ==
    {<<>>}
    \cup {<<t>> \o [k \in 1..n |-> [artist |-> "C", song_name |-> "D"]] :
              t \in [artist : {"A", ""}, song_name : {"B", ""}],
              n \in 0..(MaxTracks - 1)}

\* The format arguments it is called with: "all", two supported formats, a
\* string that names none, and a value that is no string.
SaveFormats ==
    {Str("all"), Str("json"), Str("m3u"), Str("bogus"), NotAString}

\* _apply_downloader_metadata(metadata, downloader, local_path) by itself:
\* the mix metadata are set from what the downloader gave.
ApplyDownloaderMetadata(md, dl, p) ==
    /\ pc = "idle"
    /\ call' = "_apply_downloader_metadata"
    /\ mix_metadata' = SetMixMetadata(DownloaderTitle(md, dl, p),
                                      DownloaderUploader(md, dl),
                                      DownloaderDuration(md, dl))
    /\ resolved' = Resolution(Given("remote", md, dl, p),
                              DownloaderTitle(md, dl, p),
                              DownloaderUploader(md, dl),
                              DownloaderDuration(md, dl))
    /\ tracks' = <<>>
    /\ save_calls' = <<>>
    /\ exports' = <<>>
    /\ outcome' = "ok"
    /\ UNCHANGED <<store, env, signal, pc, runs, input, paths, pool, audio_segments,
                   pending, context, tempdir, trace, cleanups, identify_calls,
                   rm_failed, close_calls, close_failed, stage_result,
                   identified, valid_at_start, prev, removals>>

\* The local files _handle_local_file is run on by itself: one with a name,
\* one whose name is blank.
LocalFiles == {<<"local", "audio", 0>>, <<" ", "audio", 0>>}

\* _handle_local_file(validated_path) by itself, on a file that exists: the
\* mix metadata are set from the file's name.
HandleLocalFile(p) ==
    /\ pc = "idle"
    /\ call' = "_handle_local_file"
    /\ mix_metadata' = SetMixMetadata(Sanitizer(Stem(p)), UnknownArtist,
                                      NoDuration)
    /\ resolved' = Resolution(Given("local", NoMetadata, NoAttrs, p),
                              Sanitizer(Stem(p)), UnknownArtist, NoDuration)
    /\ tracks' = <<>>
    /\ save_calls' = <<>>
    /\ exports' = <<>>
    /\ outcome' = "ok"
    /\ UNCHANGED <<store, env, signal, pc, runs, input, paths, pool, audio_segments,
                   pending, context, tempdir, trace, cleanups, identify_calls,
                   rm_failed, close_calls, close_failed, stage_result,
                   identified, valid_at_start, prev, removals>>

\* The caller awaits save_output(ts, format) itself. Nothing in it suspends:
\* it runs from its call to its return in one step.
CallSaveOutput(ts, format, outs, crash) ==
    /\ pc = "idle"
    /\ call' = "save_output"
    /\ tracks' = ts
    /\ LET run == SaveOutputRun(ts, format, outs, crash, mix_metadata)
       IN  /\ save_calls' = run.calls
           /\ exports' = <<Export(format, run)>>
           /\ outcome' = run.raised
    /\ UNCHANGED <<store, env, signal, pc, runs, input, paths, pool, audio_segments,
                   pending, context, tempdir, trace, cleanups, identify_calls,
                   rm_failed, close_calls, close_failed, stage_result,
                   identified, valid_at_start, prev, mix_metadata, resolved,
                   removals>>

\* ------------------------------------------------------------ cleanup
\* cleanup with a step outside its try blocks: the step's exception
\* replaces the one in flight.
CleanupPropagates(failed, err) == IF failed THEN "CleanupError" ELSE err

\* cleanup letting the exception of a step through to its caller.
CleanupReraises(failed, err) == IF failed THEN "Exception" ELSE err

\* The exception in flight after one step of cleanup, `failed` telling
\* whether the step raised: every step sits in a try block whose except
\* clause logs the exception and goes on, so the exception that left
\* process_input's try block (err, or "ok") is all that stays in flight.
CleanupCatches(failed, err) == err

\* The loop over the entries left at the first failure.
RestAfterFailureNone(entries) == <<>>

\* The entries still to visit after one's removal failed: the except clause
\* is inside the loop, which goes on.
RestAfterFailure(entries) == Tail(entries)

\* One attempt to remove the directory itself: shutil.rmtree(temp_dir) or
\* temp_dir.rmdir(), and whether it succeeded.
Removal(op, ok) == [op |-> op, ok |-> ok]

\* One entry of temp_dir.glob("*"): file.unlink() removes it, or raises
\* and the failure is logged.
CleanupEntry(removed) ==
    /\ pc = "cleanup_files"
    /\ todo # <<>>
    /\ todo' = IF removed THEN Tail(todo) ELSE RestAfterFailure(todo)
    /\ temp_files' = IF removed THEN {f \in temp_files : f.name # Head(todo)}
                     ELSE temp_files
    /\ rm_failed' = (rm_failed \/ ~removed)
    /\ pending' = CleanupCatches(~removed, pending)
    /\ UNCHANGED <<store, env, mixstate, removals, signal, control, paths, pool,
                   audio_segments, tracks, outcome, context, temp_exists, trace, cleanups,
                   identify_calls, save_calls, close_calls, close_failed,
                   stage_result, identified, valid_at_start, prev>>

\* cleanup without the removal of the directory itself.
CleanupTreeSkipped(tree_removed, left, empty_removed) ==
    /\ pc = "cleanup_files"
    /\ todo = <<>>
    /\ left = {} /\ tree_removed /\ empty_removed
    /\ pc' = "closing"
    /\ UNCHANGED <<store, env, mixstate, removals, signal, call, runs, input, paths, pool, results,
                   tempdir, history>>

\* After the entries: shutil.rmtree(temp_dir) removes the directory with
\* what is left in it, or raises leaving `left` of its files; then
\* temp_dir.rmdir() is tried, which removes an empty directory only
\* (`empty_removed` tells whether it succeeds on one).
CleanupTree(tree_removed, left, empty_removed) ==
    /\ pc = "cleanup_files"
    /\ todo = <<>>
    /\ left \subseteq temp_files
    /\ IF tree_removed
       THEN /\ left = {} /\ empty_removed
            /\ temp_exists' = FALSE
            /\ temp_files' = {}
            /\ removals' = Append(removals, Removal("rmtree", TRUE))
            /\ UNCHANGED rm_failed
       ELSE /\ temp_files' = left
            /\ temp_exists' = ~(left = {} /\ empty_removed)
            /\ removals' = removals
                   \o <<Removal("rmtree", FALSE),
                        Removal("rmdir", left = {} /\ empty_removed)>>
            /\ rm_failed' = TRUE
    /\ pending' = CleanupCatches(~tree_removed, pending)
    /\ pc' = "closing"
    /\ UNCHANGED <<store, env, mixstate, signal, call, runs, input, paths, pool,
                   audio_segments, tracks, outcome, context, todo, trace,
                   cleanups, identify_calls, save_calls, close_calls,
                   close_failed, stage_result, identified, valid_at_start,
                   prev>>

\* The close hook inside the try block of the removals: a removal's
\* failure skips it.
CloseHookUnlessRemovalFailed(present, removal_failed) ==
    IF present /\ ~removal_failed THEN 1 ELSE 0

\* The calls of the close hook cleanup makes: it is in a try block of its
\* own after the one of the removals, and is called when the manager has
\* the attribute.
CloseHookCalls(present, removal_failed) == IF present THEN 1 ELSE 0

\* The end of cleanup: identification_manager.close() is awaited when the
\* manager has one; then cleanup returns (the record of its removals ends
\* with it) and process_input returns, or re-raises the exception that left
\* the try block.
CleanupClose(raised) ==
    /\ pc = "closing"
    /\ close_calls' = close_calls + CloseHookCalls(has_close, rm_failed)
    /\ IF close_calls' # close_calls
       THEN close_failed' = raised
       ELSE ~raised /\ UNCHANGED close_failed
    /\ pending' = CleanupCatches(raised, pending)
    /\ outcome' = pending'
    /\ pc' = "idle"
    /\ removals' = <<>>
    /\ UNCHANGED <<store, env, mixstate, signal, call, runs, input, paths, pool,
                   audio_segments, tracks, context, tempdir, trace, cleanups,
                   identify_calls, save_calls, rm_failed, stage_result,
                   identified, valid_at_start, prev>>

\* The caller awaits cleanup() or close() itself (close awaits cleanup),
\* after a process_input or another such call has ended: the temp
\* directory is looked for, and skipped when it is not there. At most
\* MaxCleanups cleanups are run, that of process_input included.
CallCleanup(method) ==
    /\ pc = "idle"
    /\ call \in {"process_input", "cleanup", "close"}
    /\ cleanups < MaxCleanups
    /\ call' = method
    /\ cleanups' = cleanups + 1
    /\ IF temp_exists
       THEN pc' = "cleanup_files" /\ todo' = GlobOrder(temp_files)
       ELSE pc' = "closing" /\ todo' = <<>>
    /\ pending' = "ok"
    /\ outcome' = "none"
    /\ trace' = <<"CleaningUp">>
    /\ prev' = [call |-> call, path |-> local_path]
    /\ valid_at_start' = {}
    /\ local_path' = NoPath
    /\ source_path' = NoPath
    /\ segment_params' = <<>>
    /\ current_time' = 0
    /\ job' = <<>>
    /\ future_segments' = <<>>
    /\ transcodes' = <<>>
    /\ overtook' = FALSE
    /\ audio_segments' = <<>>
    /\ tracks' = <<>>
    /\ context' = NoContext
    /\ identify_calls' = <<>>
    /\ save_calls' = <<>>
    /\ rm_failed' = FALSE
    /\ close_calls' = 0
    /\ close_failed' = FALSE
    /\ stage_result' = "none"
    /\ identified' = "none"
    /\ resolved' = NotResolved
    /\ exports' = <<>>
    /\ removals' = <<>>
    /\ UNCHANGED <<store, env, signal, runs, input, temp_exists, temp_files,
                   mix_metadata>>

\* ----------------------------------------------------------- shutdown
\* shutdown(), from a signal handler or another task while process_input
\* is suspended (the download, the pool's with block, identify_tracks, the
\* close hook): it sets the event and shuts down self.executor, to which
\* nothing is ever submitted.
Shutdown ==
    /\ pc \in {"downloading", "pool", "recognizing", "closing"}
    /\ ~shutdown_event
    /\ shutdown_event' = TRUE
    /\ executor_down' = TRUE
    /\ UNCHANGED <<store, other_pc, env, mixstate, removals, control, paths, pool, results, tempdir, history>>

\* ------------------------------------------- a second process_input
\* _prepare_input raises without suspending: the input is invalid, names
\* no local file, or has no downloader.
ResolverRaises(i) ==
    \/ ~i.valid
    \/ i.is_local /\ ~i.exists
    \/ ~i.is_local /\ ~i.downloader

\* While the call in progress is suspended in an await, another task calls
\* process_input(i) on the same AsyncApp with an input that fails to
\* resolve. That call runs without suspending from its try block into
\* cleanup and through the removals, on Path(self.config.temp_dir), the
\* directory of the call in progress: the directory goes with all its
\* files (`gone`), or stays with the files `left`. It suspends in the
\* close hook when the manager has one.
OtherRunFails(i, gone, left) ==
    /\ call = "process_input"
    /\ pc \in {"downloading", "recognizing", "closing"}
    /\ other_pc = "none"
    /\ ResolverRaises(i)
    /\ left \subseteq temp_files
    /\ gone => left = {}
    /\ IF temp_exists
       THEN temp_exists' = ~gone /\ temp_files' = left
       ELSE UNCHANGED <<temp_exists, temp_files>>
    /\ other_pc' = IF has_close THEN "closing" ELSE "ended"
    /\ UNCHANGED <<store, env, mixstate, removals, shutdown_event, executor_down, control, paths, pool,
                   results, todo, history>>

\* The same with an input that resolves and fails in the next stage: a
\* local file that exists and in which mutagen finds no audio. The second
\* call's _handle_local_file sets the mix metadata of the AsyncApp, its
\* split_audio gives no segment, and it goes on into cleanup as above, all
\* without suspending.
OtherRunResolves(i, gone, left) ==
    /\ call = "process_input"
    /\ pc \in {"downloading", "recognizing", "closing"}
    /\ other_pc = "none"
    /\ i.valid /\ i.is_local /\ ~LocalFileMissing(i)
    /\ i.validated[2] # "audio"
    /\ mix_metadata' = SetMixMetadata(Stem(i.validated), UnknownArtist,
                                      NoDuration)
    /\ left \subseteq temp_files
    /\ gone => left = {}
    /\ IF temp_exists
       THEN temp_exists' = ~gone /\ temp_files' = left
       ELSE UNCHANGED <<temp_exists, temp_files>>
    /\ other_pc' = IF has_close THEN "closing" ELSE "ended"
    /\ UNCHANGED <<store, env, resolved, exports, removals, shutdown_event,
                   executor_down, control, paths, pool, results, todo,
                   history>>

\* The second call's close hook returns and its error reaches its caller.
OtherRunCloses ==
    /\ other_pc = "closing"
    /\ pc \in {"downloading", "recognizing", "closing", "idle"}
    /\ other_pc' = "ended"
    /\ UNCHANGED <<store, env, mixstate, removals, shutdown_event, executor_down, control, paths, pool,
                   results, tempdir, history>>

\* ---------------------------------------------- user store: its calls
\* No call of the store is in progress.
Quiet == \A t \in Threads : threads[t].pc = "idle"

\* What the callers pass: addresses written in several ways, the values
\* update_user is given, the item ids.
Addresses ==
    {Email("user", FALSE, FALSE), Email("user", TRUE, FALSE),
     Email("user", FALSE, TRUE), Email("dj", FALSE, FALSE)}
UpdateValues ==
    {[keys |-> {"name", "password", "is_admin"}, name |-> "Neo",
      password |-> "secret", is_admin |-> TRUE],
     [keys |-> {"password"}, name |-> "", password |-> "",
      is_admin |-> FALSE]}
Items == {"mix-1"}

\* add_user(email, password, is_admin=...) run to its end: ValueError when
\* get_by_email finds the address; else the new user is appended to the
\* list loaded and the list saved.
AddUser(email, password, is_admin) ==
    /\ Quiet
    /\ IF GetByEmail(users, email) # 0
       THEN /\ last' = [op |-> "add_user", email |-> email, id |-> 0,
                        result |-> "ValueError"]
            /\ UNCHANGED <<users, minted>>
       ELSE /\ Len(users) < MaxUsers
            /\ minted < MaxMinted
            /\ users' = Append(users, NewUser(minted + 1, email, password,
                                              "", is_admin))
            /\ minted' = minted + 1
            /\ last' = [op |-> "add_user", email |-> email,
                        id |-> minted + 1, result |-> "ok"]
    /\ UNCHANGED <<app, environ, threads>>

\* update_user(user_id, updates) run to its end: None for an unknown id.
UpdateUser(user_id, updates) ==
    /\ Quiet
    /\ LET idx == FindIndexById(users, user_id)
       IN  IF idx = 0
           THEN /\ last' = [op |-> "update_user", email |-> NoEmail,
                            id |-> user_id, result |-> "None"]
                /\ UNCHANGED <<users, minted>>
           ELSE /\ Rehashes(updates) => minted < MaxMinted
                /\ users' = [users EXCEPT
                                 ![idx] = Updated(@, updates, minted + 1)]
                /\ minted' = IF Rehashes(updates) THEN minted + 1
                             ELSE minted
                /\ last' = [op |-> "update_user", email |-> NoEmail,
                            id |-> user_id, result |-> "ok"]
    /\ UNCHANGED <<app, environ, threads>>

\* toggle_favorite(user_id, item_id) run to its end.
ToggleFavorite(user_id, item_id) ==
    /\ Quiet
    /\ LET idx == FindIndexById(users, user_id)
       IN  IF idx = 0
           THEN /\ last' = [op |-> "toggle_favorite", email |-> NoEmail,
                            id |-> user_id, result |-> "None"]
                /\ UNCHANGED users
           ELSE /\ users' = [users EXCEPT ![idx] = Toggled(@, item_id)]
                /\ last' = [op |-> "toggle_favorite", email |-> NoEmail,
                            id |-> user_id,
                            result |-> ToggleResult(users[idx], item_id)]
    /\ UNCHANGED <<app, minted, environ, threads>>

\* delete_user(user_id) run to its end.
DeleteUser(user_id) ==
    /\ Quiet
    /\ LET idx == FindIndexById(users, user_id)
       IN  IF idx = 0
           THEN /\ last' = [op |-> "delete_user", email |-> NoEmail,
                            id |-> user_id, result |-> "False"]
                /\ UNCHANGED users
           ELSE /\ users' = Popped(users, idx)
                /\ last' = [op |-> "delete_user", email |-> NoEmail,
                            id |-> user_id, result |-> "True"]
    /\ UNCHANGED <<app, minted, environ, threads>>

\* ensure_default_admin() run to its end, under the environment.
EnsureDefaultAdmin ==
    /\ Quiet
    /\ LET st == EnsureTargets([users |-> users, minted |-> minted],
                               AdminTargets(environ), 1, {})
       IN  /\ Len(st.users) <= MaxUsers
           /\ st.minted <= MaxMinted
           /\ users' = st.users
           /\ minted' = st.minted
    /\ last' = [op |-> "ensure_default_admin", email |-> NoEmail, id |-> 0,
                result |-> "ok"]
    /\ UNCHANGED <<app, environ, threads>>

\* ------------------------------------- user store: its calls, step by step
\* Thread t calls add_user(email, password) and runs it up to the User it
\* builds: get_by_email loads the list and looks the address up.
BeginAddUser(t, email, password) ==
    /\ threads[t].pc = "idle"
    /\ IF GetByEmail(users, email) # 0
       THEN /\ threads' = [threads EXCEPT
                               ![t] = [IdleThread EXCEPT
                                          !.pc = "done", !.op = "add_user",
                                          !.email = email,
                                          !.result = "ValueError"]]
            /\ UNCHANGED minted
       ELSE /\ minted < MaxMinted
            /\ threads' = [threads EXCEPT
                               ![t] = [IdleThread EXCEPT
                                          !.pc = "checked", !.op = "add_user",
                                          !.email = email,
                                          !.id = minted + 1,
                                          !.user = NewUser(minted + 1, email,
                                                           password, "",
                                                           FALSE)]]
            /\ minted' = minted + 1
    /\ UNCHANGED <<app, users, environ, last>>

\* add_user goes on: users = self._load_users(); users.append(user).
LoadUsers(t) ==
    /\ threads[t].pc = "checked"
    /\ threads' = [threads EXCEPT
                       ![t].pc = "loaded",
                       ![t].loaded = Append(users, threads[t].user)]
    /\ UNCHANGED <<app, users, minted, environ, last>>

\* Thread t calls toggle_favorite(user_id, item_id) and runs it up to its
\* save: the list is loaded and the user's favorites changed in it.
BeginToggleFavorite(t, user_id, item_id) ==
    /\ threads[t].pc = "idle"
    /\ LET idx == FindIndexById(users, user_id)
       IN  threads' =
               [threads EXCEPT
                   ![t] = IF idx = 0
                          THEN [IdleThread EXCEPT
                                   !.pc = "done", !.op = "toggle_favorite",
                                   !.id = user_id, !.item = item_id,
                                   !.result = "None"]
                          ELSE [IdleThread EXCEPT
                                   !.pc = "loaded", !.op = "toggle_favorite",
                                   !.id = user_id, !.item = item_id,
                                   !.loaded = [users EXCEPT
                                                  ![idx] = Toggled(@, item_id)],
                                   !.result = ToggleResult(users[idx],
                                                           item_id)]]
    /\ UNCHANGED <<app, users, minted, environ, last>>

\* self._save_users(users): the storage is given the thread's list, and
\* the call returns.
SaveUsers(t) ==
    /\ threads[t].pc = "loaded"
    /\ users' = threads[t].loaded
    /\ threads' = [threads EXCEPT
                       ![t].pc = "done",
                       ![t].result = IF threads[t].op = "add_user" THEN "ok"
                                     ELSE @]
    /\ UNCHANGED <<app, minted, environ, last>>

\* ------------------------------------------------------ specification
Next ==
    \/ \E i \in Inputs : CallProcessInput(i)
    \/ PrepareInput
    \/ \E p \in Downloads \cup {NoPath}, md \in Metadatas,
          dl \in DownloaderAttrs : DownloadReturns(p, md, dl)
    \/ DownloadRaises
    \/ SplitAudio
    \/ \E i \in 1..(MaxDuration + 1) : WorkerStart(i)
    \/ \E i \in 1..(MaxDuration + 1), rc \in {0, 1, 2},
          size \in {0, MinSize, MinSize + 1} : WorkerFinish(i, rc, size)
    \/ PoolDrained
    \/ \E ts \in TrackLists : IdentifyReturns(ts)
    \/ IdentifyRaises
    \/ \E outs \in ExportOutcomes, crash \in BOOLEAN : SaveOutput(outs, crash)
    \/ \E removed \in BOOLEAN : CleanupEntry(removed)
    \/ \E tree_removed \in BOOLEAN, left \in SUBSET temp_files,
          empty_removed \in BOOLEAN :
            CleanupTree(tree_removed, left, empty_removed)
    \/ \E raised \in BOOLEAN : CleanupClose(raised)
    \/ Shutdown

Spec == Init /\ [][Next]_vars

\* split_audio called by itself, again and again, with no cleanup between
\* the calls.
NextSplit ==
    \/ \E p \in SplitInputs : CallSplitAudio(p)
    \/ SplitAudio
    \/ \E i \in 1..(MaxDuration + 1) : WorkerStart(i)
    \/ \E i \in 1..(MaxDuration + 1), rc \in {0, 1, 2},
          size \in {0, MinSize, MinSize + 1} : WorkerFinish(i, rc, size)
    \/ PoolDrained

\* split_audio reads neither the close hook nor the output format.
InitSplit ==
    /\ Init
    /\ ~has_close
    /\ config.output_format = "all"

SpecSplit == InitSplit /\ [][NextSplit]_vars

\* The planning loop of split_audio, turn by turn, for every valid config
\* and every audio file of PlanConfigs and PlanFiles. The loop is
\* sequential code: it keeps running.
NextPlan ==
    \/ \E p \in PlanFiles(config) : CallSplitAudio(p)
    \/ PlanBegin
    \/ PlanStep
    \/ PlanEnd

InitPlan ==
    /\ config \in {c \in PlanConfigs : ValidConfig(c)}
    /\ Constructed
    /\ StoreConstructed
    /\ cpu_count = 1
    /\ ~has_close
    /\ ~temp_exists

SpecPlan == InitPlan /\ [][NextPlan]_vars /\ WF_vars(NextPlan)

\* save_output called by itself, on whatever mix metadata a download or a
\* local file left.
NextSave ==
    \/ \E r \in DownloaderResults :
            ApplyDownloaderMetadata(r.md, r.dl, <<"dl", "audio", 0>>)
    \/ \E p \in LocalFiles : HandleLocalFile(p)
    \/ \E ts \in SaveTrackLists, format \in SaveFormats,
          outs \in SaveOutcomes :
            \/ CallSaveOutput(ts, format, outs, FALSE)
            \/ /\ outs = [f \in Range(SupportedFormats) |-> "saved"]
               /\ CallSaveOutput(ts, format, outs, TRUE)

\* save_output reads the debug flag of the config only.
InitSave ==
    /\ Init
    /\ config.output_format = "all"
    /\ cpu_count = 1
    /\ ~has_close
    /\ ~temp_exists

SpecSave == InitSave /\ [][NextSave]_vars

\* process_input with a second call of it made by another task.
NextRuns ==
    \/ Next
    \/ \E i \in Inputs, gone \in BOOLEAN, left \in SUBSET temp_files :
            OtherRunFails(i, gone, left)
    \/ \E i \in Inputs, gone \in BOOLEAN, left \in SUBSET temp_files :
            OtherRunResolves(i, gone, left)
    \/ OtherRunCloses

SpecRuns == Init /\ [][NextRuns]_vars

\* process_input, and cleanup() or close() called again after it.
NextCleanup ==
    \/ Next
    \/ \E method \in {"cleanup", "close"} : CallCleanup(method)

SpecCleanup == Init /\ [][NextCleanup]_vars

\* The AsyncApp left alone while the user store is used.
AppIdle ==
    /\ config = CHOOSE c \in Configs : c.output_format = "json"
    /\ Constructed
    /\ cpu_count = 1
    /\ ~has_close
    /\ ~temp_exists

\* The calls that change the user store, one at a time, on a new store.
NextStore ==
    \/ \E email \in Addresses : AddUser(email, "secret", FALSE)
    \/ \E user_id \in 1..MaxMinted, updates \in UpdateValues :
            UpdateUser(user_id, updates)
    \/ \E user_id \in 1..MaxMinted, item_id \in Items :
            ToggleFavorite(user_id, item_id)
    \/ \E user_id \in 1..MaxMinted : DeleteUser(user_id)

InitStore == AppIdle /\ StoreConstructed

SpecStore == InitStore /\ [][NextStore]_vars

\* A store that holds one user, and the calls the threads make on it, one
\* call each, their steps interleaved: add_user with an address written
\* in two ways, toggle_favorite on the user's favorites.
OneUser == <<NewUser(1, Email("user", FALSE, FALSE), "secret", "", FALSE)>>
RaceAddresses == {Email("dj", FALSE, FALSE), Email("dj", TRUE, FALSE)}
RaceItems == {"mix-1", "mix-2"}

NextRace ==
    \/ \E t \in Threads, email \in RaceAddresses :
            BeginAddUser(t, email, "secret")
    \/ \E t \in Threads : LoadUsers(t)
    \/ \E t \in Threads, item_id \in RaceItems :
            BeginToggleFavorite(t, 1, item_id)
    \/ \E t \in Threads : SaveUsers(t)

InitRace ==
    /\ AppIdle
    /\ users = OneUser
    /\ minted = 1
    /\ environ = NoEnviron
    /\ threads = [t \in Threads |-> IdleThread]
    /\ last = NoLast

SpecRace == InitRace /\ [][NextRace]_vars

\* ensure_default_admin under every environment: ADMIN_EMAIL unset, no
\* address, another address, the default address, or the default address
\* in upper case; ADMIN_PASSWORD unset, the default password, or another.
\* Before it an account with the default address may have been added, with
\* either password and admin flag.
AdminEnvirons ==
    [email    : {NoEmail, NotAnAddress, Email("boss", FALSE, FALSE),
                 DEFAULT_ADMIN_EMAIL, Email("admin", TRUE, FALSE)},
     password : {""} \cup Passwords]

NextAdmin ==
    \/ \E email \in {DEFAULT_ADMIN_EMAIL, Email("admin", TRUE, FALSE)},
          password \in Passwords, is_admin \in BOOLEAN :
            AddUser(email, password, is_admin)
    \/ EnsureDefaultAdmin

InitAdmin ==
    /\ AppIdle
    /\ users = <<>>
    /\ minted = 0
    /\ environ \in AdminEnvirons
    /\ threads = [t \in Threads |-> IdleThread]
    /\ last = NoLast

SpecAdmin == InitAdmin /\ [][NextAdmin]_vars


\* ------------------------------------------------------------- claims

\* The plans whose worker ended without a segment, and with one.
Failed == {i \in DOMAIN job : job[i] = "done" /\ future_segments[i] = NoSegment}
Materialized ==
    {i \in DOMAIN job : job[i] = "done" /\ future_segments[i] # NoSegment}

\* split_audio has returned to process_input (it did not raise).
SplitReturned ==
    /\ call = "process_input"
    /\ \/ pc \in {"recognizing", "exporting"}
       \/ /\ pc \in {"cleanup_files", "closing", "idle"}
          /\ "Segmenting" \in Range(trace)
          /\ stage_result # "MutagenError"

StageOrder == <<"Resolving", "Segmenting", "Recognizing", "Exporting">>

\* The stages of the call in progress entered before cleanup.
StagesRun ==
    IF cleanups = 1 /\ trace # <<>> THEN SubSeq(trace, 1, Len(trace) - 1)
    ELSE trace

\* C1: in every execution of process_input, ended normally or by a failure
\* of any stage, cleanup is entered exactly once, after the last stage that
\* ran and before the call returns or raises: no cleanup while a stage runs,
\* one cleanup (the last entry of the stage trace) from then on, and the
\* caller sees the outcome only after it.
C1_CleanupExactlyOnce ==
    call = "process_input" =>
        /\ cleanups = Cardinality({k \in DOMAIN trace : trace[k] = "CleaningUp"})
        /\ pc \in {"resolving", "downloading", "segmenting", "pool",
                   "recognizing", "exporting"}
              => cleanups = 0 /\ outcome = "none"
        /\ pc \in {"cleanup_files", "closing"}
              => cleanups = 1 /\ outcome = "none"
                 /\ trace[Len(trace)] = "CleaningUp"
        /\ pc = "idle"
              => cleanups = 1 /\ outcome # "none"
                 /\ trace[Len(trace)] = "CleaningUp"

\* A call that failed in Recognizing has ended, after one cleanup.
C1_Witness ==
    Ended /\ outcome = "IdentificationError" /\ cleanups = 1

\* C2: after process_input has ended, in success or failure, and no removal
\* of its cleanup failed, the temp directory does not exist and no segment
\* file is left.
C2_TempDirRemoved ==
    (Ended /\ ~rm_failed) => (~temp_exists /\ temp_files = {})

\* A failed call that had transcoded a segment file has ended with the
\* directory gone.
C2_Witness ==
    /\ Ended /\ ~rm_failed /\ outcome # "ok"
    /\ \E i \in DOMAIN transcodes :
           transcodes[i] > 0 /\ future_segments[i] # NoSegment
    /\ ~temp_exists

\* C3: a failure inside cleanup (an entry's removal, the tree's removal, the
\* directory's removal, the close hook) never leaves cleanup: process_input
\* ends with what left its try block, "ok" or the stage's error.
C3_CleanupNeverRaises ==
    Ended => outcome = stage_result

\* A call that failed in Recognizing ends with that error although a
\* removal and the close hook failed.
C3_Witness ==
    /\ Ended /\ rm_failed /\ close_failed
    /\ outcome = "TrackIdentificationError"

\* C4: identify_tracks is never called with an empty list, and when
\* split_audio returns with no plan materialized the call fails with "No
\* audio segments were created" without any call of identify_tracks.
C4_NoSegmentsStopsRun ==
    /\ \A k \in DOMAIN identify_calls : identify_calls[k] # <<>>
    /\ (SplitReturned /\ Materialized = {}) =>
           /\ identify_calls = <<>>
           /\ identified = "none"
           /\ stage_result = "ValueError: No audio segments were created"
           /\ pc = "idle" =>
                  outcome = "ValueError: No audio segments were created"

\* Both planned transcodes failed and the call ended with the stage error.
C4_Witness ==
    /\ Ended
    /\ Len(segment_params) = 2 /\ Failed = DOMAIN job /\ transcodes = <<1, 1>>
    /\ outcome = "ValueError: No audio segments were created"

\* C5: when identify_tracks returns no track, process_input ends with
\* TrackIdentificationError, its context holding the number of materialized
\* segments and the validated input, and save_output is never called.
C5_NoTracksError ==
    (call = "process_input" /\ identified = "empty") =>
        /\ stage_result = "TrackIdentificationError"
        /\ context = [segments_created |-> Cardinality(Materialized),
                      input_path       |-> input.validated]
        /\ save_calls = <<>>
        /\ "Exporting" \notin Range(trace)
        /\ pc = "idle" => outcome = "TrackIdentificationError"

\* A remote input, one of two transcodes failed, no track found.
C5_Witness ==
    /\ Ended /\ identified = "empty"
    /\ ~input.is_local /\ local_path # input.validated
    /\ Cardinality(Failed) = 1 /\ Cardinality(Materialized) = 1

\* What C6 promises once split_audio has returned with n plans, k of them
\* failed: n - k segments, each a worker's result, and with n - k >= 1 the
\* run is past Segmentation with exactly those handed to identify_tracks.
PartialTolerance ==
    LET n == Len(segment_params)
        k == Cardinality(Failed)
    IN  /\ Len(audio_segments) = n - k
        /\ \A j \in DOMAIN audio_segments :
               \E i \in Materialized : audio_segments[j] = future_segments[i]
        /\ n - k >= 1 =>
               /\ identify_calls = <<audio_segments>>
               /\ "Recognizing" \in Range(trace)

SameInputAgain ==
    /\ call = "split_audio"
    /\ prev.call = "split_audio"
    /\ prev.path = local_path

\* A plan whose output file was valid when the call began: the transcoder
\* is not invoked for it and its segment names that file and is the one
\* made when this input's worker wrote the file.
ReusedAsMade(i) ==
    segment_params[i].file \in valid_at_start =>
        /\ transcodes[i] = 0
        /\ job[i] = "done" =>
               /\ future_segments[i] # NoSegment
               /\ future_segments[i].file_path = segment_params[i].file
               /\ \A f \in temp_files :
                      (/\ f.name = segment_params[i].file
                       /\ f.from = local_path
                       /\ f.made # NoSegment) => future_segments[i] = f.made

\* C7 as claimed: a plan with a valid output file is not transcoded again
\* and yields the same segment, and a second split_audio on the same input,
\* no cleanup in between, never invokes the transcoder.
C7_Original ==
    call = "split_audio" =>
        /\ \A i \in DOMAIN job : ReusedAsMade(i)
        /\ SameInputAgain => \A i \in DOMAIN transcodes : transcodes[i] = 0

\* C7 as amended: a plan with a valid output file is not transcoded again
\* and yields the same segment; a second split_audio on the same input, no
\* cleanup in between, invokes the transcoder only for the plans whose
\* output file the first run did not leave above the threshold.
C7_Idempotence ==
    call = "split_audio" =>
        \A i \in DOMAIN job :
            /\ ReusedAsMade(i)
            /\ (SameInputAgain /\ transcodes[i] > 0)
                   => segment_params[i].file \notin valid_at_start

\* The second call on the same input reused the first plan's file and had
\* to transcode the second plan again.
C7_Witness ==
    /\ SameInputAgain /\ pc = "idle" /\ Len(segment_params) >= 2
    /\ segment_params[1].file \in valid_at_start
    /\ transcodes[1] = 0 /\ future_segments[1] # NoSegment
    /\ \E f \in temp_files : f.name = segment_params[1].file
                             /\ f.made = future_segments[1]
    /\ transcodes[2] > 0

\* C8: once shutdown() has set the shutdown signal, process_input enters
\* no further stage (Segmenting, Recognizing, Exporting).
C8_NoStageAfterShutdown ==
    [][(shutdown_event /\ pc' # pc)
           => pc' \notin {"segmenting", "recognizing", "exporting"}]_vars

\* C9: once Exporting is entered, no failure of the serializer (nothing
\* saved, or an exception) makes process_input raise: what leaves the try
\* block is "ok", cleanup is entered, and the call ends with "ok".
C9_ExportNeverFails ==
    (call = "process_input" /\ "Exporting" \in Range(trace)) =>
        /\ pc # "exporting" => (stage_result = "ok" /\ cleanups = 1)
        /\ pc = "idle" => outcome = "ok"

\* The serializer threw and the call ended successfully after cleanup.
C9_Witness ==
    /\ Ended /\ outcome = "ok" /\ cleanups = 1
    /\ Len(save_calls) = 1 /\ save_calls[1].ended = "throws"

\* C10: the stages are entered in the order Resolving, Segmenting,
\* Recognizing, Exporting, CleaningUp, none twice; a successful call has
\* entered them all; Exporting is entered only with tracks; a failed call
\* went from the failing stage to CleaningUp, entering no later stage.
C10_StageOrder ==
    call = "process_input" =>
        /\ Len(StagesRun) <= Len(StageOrder)
        /\ \A k \in DOMAIN StagesRun : StagesRun[k] = StageOrder[k]
        /\ cleanups = 1 => trace = Append(StagesRun, "CleaningUp")
        /\ "Exporting" \in Range(trace) => identified = "tracks"
        /\ pc = "exporting" => tracks # <<>>
        /\ (pc = "idle" /\ outcome = "ok") => StagesRun = StageOrder
        /\ (pc = "idle" /\ outcome # "ok") =>
               /\ Len(StagesRun) < Len(StageOrder)
               /\ outcome = stage_result

\* A call ended successfully, having entered all five stages in order.
C10_Witness ==
    /\ Ended /\ outcome = "ok"
    /\ trace = <<"Resolving", "Segmenting", "Recognizing", "Exporting",
                 "CleaningUp">>

\* What _prepare_input raises for an input it rejects before any await.
ExpectedResolverError(i) ==
    IF ~i.valid THEN "ValueError: Invalid URL or file path provided"
    ELSE IF i.is_local THEN "FileNotFoundError"
    ELSE "ValueError: Failed to create downloader"

\* The errors of Resolving: the three above, and a download that returned
\* no path or raised.
ResolvingErrors ==
    {"ValueError: Invalid URL or file path provided", "FileNotFoundError",
     "ValueError: Failed to create downloader",
     "ValueError: local_path cannot be None", "DownloadError"}

\* C11: an input that is invalid, names a missing local file or has no
\* downloader, or whose download yields no local path, makes process_input
\* fail in Resolving with that error: nothing is planned, no transcoder and
\* no recognition call happen, and cleanup is entered once, before the
\* error reaches the caller.
C11_ResolvingFails ==
    call = "process_input" =>
        /\ (pc # "resolving" /\ ResolverRaises(input))
               => stage_result = ExpectedResolverError(input)
        /\ (pc \notin {"resolving", "downloading"} /\ local_path = NoPath)
               => stage_result \in ResolvingErrors
        /\ stage_result \in ResolvingErrors =>
               /\ segment_params = <<>> /\ transcodes = <<>>
               /\ identify_calls = <<>> /\ identified = "none"
               /\ save_calls = <<>>
               /\ trace = <<"Resolving", "CleaningUp">>
               /\ cleanups = 1
               /\ IF pc = "idle" THEN outcome = stage_result
                  ELSE outcome = "none"

\* The download returned no path and the call ended with that error after
\* its cleanup.
C11_Witness ==
    /\ Ended /\ cleanups = 1
    /\ outcome = "ValueError: local_path cannot be None"
    /\ segment_params = <<>> /\ identify_calls = <<>>

\* The planning loop's inputs, in half seconds, and its windows.
PlanD == local_path[3]
PlanL == Sec(config.segment_length)
PlanO == Sec(config.overlap_duration)
PlanS == PlanL - PlanO
Planning == call = "split_audio" /\ pc \in {"planning", "planned"}
Planned == call = "split_audio" /\ pc = "planned"
NominalStart(i) == segment_params[i].start_time
NominalEnd(i) == segment_params[i].start_time + segment_params[i].length

\* C12: the nominal starts of the planned windows are 0, step, 2*step, ...
\* with step = segment_length - overlap_duration: strictly increasing, each
\* less than the duration, each the one before plus step.
C12_PlanStarts ==
    Planning =>
        \A i \in DOMAIN segment_params :
            /\ NominalStart(i) = (i - 1) * PlanS
            /\ NominalStart(i) < PlanD
            /\ i > 1 => /\ NominalStart(i) = NominalStart(i - 1) + PlanS
                        /\ NominalStart(i) > NominalStart(i - 1)

\* Three windows or more were planned with a positive overlap.
C12_Witness ==
    Planned /\ Len(segment_params) >= 3 /\ PlanO > 0

\* C13: for a duration > 0 the loop plans ceil(duration / step) windows,
\* the first starting at 0, each starting no later than the one before
\* ends, the last ending no earlier than the duration.
C13_PlanCovers ==
    (Planned /\ PlanD > 0) =>
        LET n == Len(segment_params)
        IN  /\ n = (PlanD + PlanS - 1) \div PlanS
            /\ NominalStart(1) = 0
            /\ \A i \in 1..(n - 1) : NominalStart(i + 1) <= NominalEnd(i)
            /\ NominalEnd(n) >= PlanD

\* The duration is a multiple of the step, with two windows or more.
C13_Witness ==
    /\ Planned /\ PlanD > 0 /\ PlanD % PlanS = 0
    /\ Len(segment_params) >= 2
    /\ Len(segment_params) = PlanD \div PlanS

\* C14 as claimed: every two consecutive windows overlap by exactly
\* overlap_duration: the nominal end of window i minus the nominal start
\* of window i+1.
C14_Original ==
    Planned =>
        \A i \in 1..(Len(segment_params) - 1) :
            NominalEnd(i) - NominalStart(i + 1) = PlanO

\* C14 as amended: two consecutive windows overlap by exactly
\* overlap_duration when the first has the full segment_length; when the
\* end of the file cuts it short they overlap by what is left of the file
\* after the second one's start, which is less.
C14_Overlap ==
    Planned =>
        \A i \in 1..(Len(segment_params) - 1) :
            /\ NominalEnd(i) - NominalStart(i + 1)
                   = Min(PlanO, PlanD - NominalStart(i + 1))
            /\ segment_params[i].length = PlanL
                   => NominalEnd(i) - NominalStart(i + 1) = PlanO
            /\ segment_params[i].length < PlanL
                   => /\ NominalEnd(i) - NominalStart(i + 1)
                             = PlanD - NominalStart(i + 1)
                      /\ NominalEnd(i) - NominalStart(i + 1) < PlanO

\* A full window overlaps the next by overlap_duration, and a window cut
\* short is followed by one more.
C14_Witness ==
    /\ Planned /\ PlanO > 0
    /\ \E i \in 1..(Len(segment_params) - 1) :
           /\ segment_params[i].length = PlanL
           /\ NominalEnd(i) - NominalStart(i + 1) = PlanO
    /\ \E i \in 1..(Len(segment_params) - 1) :
           segment_params[i].length < PlanL

\* The file of 125 s planned with segments of 60 s overlapping by 10 s.
Scenario125 ==
    /\ Planned /\ PlanD = Sec(125)
    /\ config.segment_length = 60 /\ config.overlap_duration = 10

\* C15: every planned window has the nominal length min(segment_length,
\* duration - start), none ends after the duration and the last ends at
\* it; 125 s in segments of 60 s overlapping by 10 s gives the starts 0, 50
\* and 100 and a last window of 25 s.
C15_WindowLengths ==
    /\ Planning =>
           \A i \in DOMAIN segment_params :
               /\ segment_params[i].length
                      = Min(PlanL, PlanD - NominalStart(i))
               /\ NominalEnd(i) <= PlanD
    /\ (Planned /\ segment_params # <<>>)
           => NominalEnd(Len(segment_params)) = PlanD
    /\ Scenario125 =>
           /\ [i \in DOMAIN segment_params |-> NominalStart(i)]
                  = <<Sec(0), Sec(50), Sec(100)>>
           /\ segment_params[3].length = Sec(25)

\* The scenario's three windows are planned.
C15_Witness ==
    Scenario125 /\ Len(segment_params) = 3

\* C16: whenever the planning loop runs its step is > 0, current_time
\* having advanced by it once per window, and the loop ends with the
\* finite list of plans.
C16_PlannerTerminates ==
    /\ [](Planning => /\ PlanS > 0
                       /\ current_time = Len(segment_params) * PlanS
                       /\ Len(segment_params) * PlanS < PlanD + PlanS)
    /\ <>(pc = "planned")

\* The loop ended after four turns or more.
C16_Witness ==
    Planned /\ Len(segment_params) >= 4 /\ current_time >= PlanD

\* C17: at every moment the transcoder invocations in flight are at most
\* min(2 * os.cpu_count(), number of plans).
C17_WorkerBound ==
    Cardinality(Running) <= Min(2 * cpu_count, Len(segment_params))

\* Two transcodes in flight, a third plan waiting for a free worker.
C17_Witness ==
    /\ pc = "pool" /\ Len(segment_params) = 3
    /\ Cardinality(Running) = 2 * cpu_count
    /\ \E i \in DOMAIN job : job[i] = "queued"

\* C18: whatever order the transcodes end in, what split_audio returns are
\* the materialized plans' segments by strictly increasing start time, as
\* many as plans were materialized.
C18_SubmissionOrder ==
    (call = "split_audio" /\ pc = "idle" /\ outcome = "ok") =>
        /\ \A j, k \in DOMAIN audio_segments :
               j < k => audio_segments[j].start_time
                            < audio_segments[k].start_time
        /\ \A j \in DOMAIN audio_segments :
               \E i \in DOMAIN segment_params :
                   audio_segments[j] = AudioSegment(segment_params[i])
        /\ Len(audio_segments) = Cardinality(Materialized)

\* A later plan's transcode ended before an earlier one's; two segments
\* were returned and one plan failed.
C18_Witness ==
    /\ call = "split_audio" /\ pc = "idle" /\ outcome = "ok"
    /\ overtook
    /\ Len(audio_segments) = 2 /\ Cardinality(Failed) = 1

\* C19: whenever a worker's result becomes a segment, for a reused file or
\* after a transcode, the segment's file is there with more than MinSize
\* bytes; and split_audio returns only workers' results.
C19_OnlyValidFiles ==
    /\ [][\A i \in DOMAIN future_segments :
              (/\ i \in DOMAIN future_segments'
               /\ future_segments[i] = NoSegment
               /\ future_segments'[i] # NoSegment)
                  => \E f \in temp_files' :
                         /\ f.name = future_segments'[i].file_path
                         /\ f.size > MinSize]_vars
    /\ [](\A j \in DOMAIN audio_segments :
              audio_segments[j] \in Range(future_segments) \ {NoSegment})

\* One plan's file has exactly MinSize bytes and gave no segment; another
\* plan's file is larger and gave one.
C19_Witness ==
    /\ call = "split_audio" /\ pc = "idle"
    /\ \E i \in DOMAIN job :
           /\ future_segments[i] = NoSegment
           /\ \E f \in temp_files :
                  f.name = segment_params[i].file /\ f.size = MinSize
    /\ \E i \in DOMAIN job :
           /\ future_segments[i] # NoSegment
           /\ \E f \in temp_files :
                  f.name = future_segments[i].file_path /\ f.size > MinSize

\* C20: while a process_input run hands its segments to Recognition, their
\* files are in the temp directory: no other run has removed them.
C20_TempDirExclusive ==
    (call = "process_input" /\ pc = "recognizing") =>
        \A j \in DOMAIN audio_segments :
            \E f \in temp_files : f.name = audio_segments[j].file_path

\* C21: the title, artist and duration of the mix info a process_input run
\* hands to the serializers are those its own input resolved to, whatever
\* another process_input on the same AsyncApp resolved in the meantime.
C21_OwnMixMetadata ==
    call = "process_input" =>
        \A k \in DOMAIN save_calls :
            /\ resolved.title # <<>>
                   => save_calls[k].mix_info.title = resolved.title
            /\ save_calls[k].mix_info.artist = resolved.artist
            /\ save_calls[k].mix_info.has_duration <=> resolved.duration # 0
            /\ save_calls[k].mix_info.has_duration
                   => save_calls[k].mix_info.duration = resolved.duration

\* C22: when the cleanup of a process_input run has completed, after success
\* or after any stage's error, the worker pool the AsyncApp owns
\* (self.executor) has been shut down.
C22_PoolShutDownInCleanup ==
    Ended => executor_down

\* C23: in every run the close hook of the identification manager, when it
\* has one, is called exactly once, in cleanup: not before the removals are
\* over, and once by the time the call ends, whether the removals succeeded,
\* failed or found no directory and whether the run succeeded or failed.
C23_CloseHookOnce ==
    call = "process_input" =>
        /\ pc # "idle" => close_calls = 0
        /\ pc = "idle" => close_calls = (IF has_close THEN 1 ELSE 0)

\* A run that failed, and whose removals failed, has called the hook once.
C23_Witness ==
    /\ Ended /\ has_close /\ close_calls = 1
    /\ rm_failed /\ outcome = "IdentificationError"

\* What C28 says of plan i: at most one transcoder run, none when its
\* output file was valid when the call began, one when it was not (once
\* split_audio has returned), and a plan whose transcode failed ran once
\* and has no segment in what split_audio returned.
TranscodeRule(i) ==
    LET invoked == IF i \in DOMAIN transcodes THEN transcodes[i] ELSE 0
        name    == segment_params[i].file
    IN  /\ invoked <= 1
        /\ name \in valid_at_start => invoked = 0
        /\ (pc = "idle" /\ name \notin valid_at_start) => invoked = 1
        /\ (pc = "idle" /\ i \in Failed) =>
               /\ invoked = 1
               /\ \A j \in DOMAIN audio_segments :
                      audio_segments[j].file_path # name

C29_PoolDrains ==
    /\ pc # "pool" => Running = {}
    /\ identify_calls # <<>> => \A i \in DOMAIN job : job[i] = "done"

\* Recognition runs after two transcodes that ran at the same time, the
\* second ending first.
C29_Witness ==
    /\ call = "process_input" /\ pc = "recognizing"
    /\ transcodes = <<1, 1>> /\ overtook
    /\ identify_calls = <<audio_segments>>

\* C30: in cleanup, when the temp directory exists, the entries are visited
\* one by one first, a failed removal leaving the entry and going on to the
\* next; only after the last entry is the tree's removal attempted, and the
\* removal of the bare directory is attempted exactly when the tree's
\* failed. When the directory does not exist nothing is removed.
C30_CleanupOrder ==
    [][/\ pc = "cleanup_files" =>
           /\ temp_exists /\ removals = <<>>
           /\ IF todo # <<>>
              THEN /\ pc' = "cleanup_files"
                   /\ todo' = Tail(todo)
                   /\ temp_exists' /\ removals' = <<>>
                   /\ temp_files' \in
                          {temp_files,
                           {f \in temp_files : f.name # Head(todo)}}
              ELSE /\ pc' = "closing"
                   /\ \/ /\ removals' = <<Removal("rmtree", TRUE)>>
                         /\ ~temp_exists'
                      \/ \E ok \in BOOLEAN :
                             /\ removals' = <<Removal("rmtree", FALSE),
                                              Removal("rmdir", ok)>>
                             /\ temp_exists' = ~ok
       /\ (pc \notin {"cleanup_files", "closing"} /\ pc' = "closing") =>
              /\ ~temp_exists /\ removals' = <<>>
              /\ UNCHANGED <<temp_exists, temp_files>>]_vars

\* The first entry's removal failed, the second entry was removed, the
\* tree's removal failed and the bare directory's was tried, in vain.
C30_Witness ==
    /\ call = "process_input" /\ pc = "closing" /\ rm_failed
    /\ removals = <<Removal("rmtree", FALSE), Removal("rmdir", FALSE)>>
    /\ Len(audio_segments) = 2
    /\ {f.name : f \in temp_files} = {audio_segments[1].file_path}

\* The tracks of the spec's scenario: [(A, B), (C, D)].
ScenarioTracks ==
    <<[artist |-> "A", song_name |-> "B"], [artist |-> "C", song_name |-> "D"]>>

\* C24: the title of the mix info handed to the serializers is the stored
\* title when it is not empty, else "<artist> - <song_name>" of the first
\* track when both are not empty, else "Identified Mix"; with the tracks
\* [(A, B), (C, D)] and no stored title it is "A - B".
C24_TitleFallback ==
    call = "save_output" =>
        \A k \in DOMAIN save_calls :
            LET title == save_calls[k].mix_info.title
            IN  /\ mix_metadata.title # <<>> => title = mix_metadata.title
                /\ (/\ mix_metadata.title = <<>>
                    /\ tracks[1].artist # "" /\ tracks[1].song_name # "")
                       => title = <<tracks[1].artist, " - ",
                                    tracks[1].song_name>>
                /\ (/\ mix_metadata.title = <<>>
                    /\ (tracks[1].artist = "" \/ tracks[1].song_name = ""))
                       => title = <<"Identified Mix">>
                /\ (mix_metadata.title = <<>> /\ tracks = ScenarioTracks)
                       => title = <<"A", " - ", "B">>

\* The scenario: no title is stored, and the tracks [(A, B), (C, D)] are
\* saved under "A - B".
C24_Witness ==
    /\ call = "save_output" /\ tracks = ScenarioTracks
    /\ mix_metadata.title = <<>>
    /\ Len(save_calls) = 1
    /\ save_calls[1].mix_info.title = <<"A", " - ", "B">>

\* What C25 says of the mix infos built, `parseable` telling of a raw
\* duration whether the mix info is to have it.
MixInfoDuration(parseable(_)) ==
    call = "save_output" =>
        \A k \in DOMAIN save_calls :
            LET mix_info == save_calls[k].mix_info
            IN  /\ mix_info.track_count = Len(tracks)
                /\ mix_info.has_duration <=> parseable(resolved.raw)
                /\ mix_info.has_duration
                       => mix_info.duration = resolved.raw.value

\* C25 as claimed: the mix info has track_count = len(tracks), and a
\* duration exactly when the resolved metadata hold a value parseable as a
\* number, then equal to it.
C25_Original ==
    MixInfoDuration(Parses)

\* A raw duration float() parses to a number other than zero.
ParsesNonZero(raw) == Parses(raw) /\ raw.value # 0

\* C25 as amended: the mix info has track_count = len(tracks), and a
\* duration exactly when the resolved metadata hold a value parseable as a
\* number other than zero, then equal to it.
C25_Duration ==
    MixInfoDuration(ParsesNonZero)

\* Two tracks saved with a duration the downloader gave as a string.
C25_Witness ==
    /\ call = "save_output" /\ Len(tracks) = 2 /\ Len(save_calls) = 1
    /\ resolved.raw = [kind |-> "text", value |-> 7]
    /\ save_calls[1].mix_info.has_duration
    /\ save_calls[1].mix_info.duration = 7
    /\ save_calls[1].mix_info.track_count = 2

SavedBy(c) ==
    SelectSeq(SupportedFormats,
              LAMBDA f : f \in DOMAIN c.ran /\ c.ran[f] = "saved")

PaddedWindow(i) ==
    LET plan     == segment_params[i]
        duration == local_path[3]
    IN  /\ plan.ss = Max(0, plan.start_time - 1)
        /\ plan.ss + plan.t
               = Min(duration, plan.start_time + plan.length + 1)
        /\ 0 <= plan.ss /\ plan.ss + plan.t <= duration
        /\ plan.ss <= plan.start_time
        /\ plan.start_time + plan.length <= plan.ss + plan.t

\* C31 as claimed: the extraction window of every plan is
\* [max(0, t - 0.5), min(totalDuration, t + len + 0.5)], and the segment
\* produced records the nominal start t and the nominal length len (the
\* segment's fields are seconds, the plan's half seconds).
C31_Original ==
    call = "split_audio" =>
        \A i \in DOMAIN segment_params :
            /\ PaddedWindow(i)
            /\ (i \in DOMAIN future_segments
                /\ future_segments[i] # NoSegment) =>
                   /\ Sec(future_segments[i].start_time)
                          = segment_params[i].start_time
                   /\ Sec(future_segments[i].duration)
                          = segment_params[i].length

\* C31 as amended: the same window, and the segment produced records the
\* nominal start and the nominal length cut down to whole seconds (int()),
\* not the padded values.
C31_NominalRecorded ==
    call = "split_audio" =>
        \A i \in DOMAIN segment_params :
            /\ PaddedWindow(i)
            /\ (i \in DOMAIN future_segments
                /\ future_segments[i] # NoSegment) =>
                   /\ future_segments[i].start_time
                          = segment_params[i].start_time \div 2
                   /\ future_segments[i].duration
                          = segment_params[i].length \div 2

\* The plan at 1 s with 1.5 s left was cut from 0.5 s on and gave a segment
\* that starts at 1 s and is 1 s long.
C31_Witness ==
    /\ call = "split_audio" /\ pc = "idle" /\ Len(future_segments) >= 2
    /\ segment_params[2].start_time = 2 /\ segment_params[2].length = 3
    /\ segment_params[2].ss = 1
    /\ future_segments[2] # NoSegment
    /\ future_segments[2].start_time = 1 /\ future_segments[2].duration = 1

\* The title, uploader and duration a resolve given `g` is to take: from the
\* metadata when there is any, else each from the downloader's attribute
\* or, where it has none, from the file's stem, "Unknown artist" and 0; a
\* local file's from its stem, "Unknown artist" and 0.
SourceTitle(g) ==
    IF g.how = "local" THEN Stem(g.path)
    ELSE IF g.md.present THEN g.md.title
    ELSE IF "title" \in g.dl.attrs THEN g.dl.title
    ELSE Stem(g.path)
SourceUploader(g) ==
    IF g.how = "local" THEN <<"Unknown artist">>
    ELSE IF g.md.present THEN g.md.uploader
    ELSE IF "uploader" \in g.dl.attrs THEN g.dl.uploader
    ELSE <<"Unknown artist">>
SourceDuration(g) ==
    IF g.how = "local" THEN 0
    ELSE IF g.md.present
         THEN (IF g.md.duration.kind \in {"num", "text"}
               THEN g.md.duration.value ELSE 0)
    ELSE IF "duration" \in g.dl.attrs
         THEN (IF g.dl.duration.kind \in {"num", "text"}
               THEN g.dl.duration.value ELSE 0)
    ELSE 0

\* C32: after a resolve the mix metadata hold the sanitized title and
\* uploader and the duration of the metadata when the download came with
\* any, else of the downloader's attributes, and for an attribute it lacks
\* the file's stem, "Unknown artist" and 0; after a local resolve the
\* sanitized stem, "Unknown artist" and 0.
C32_MetadataFallbacks ==
    resolved.given.how # "none" =>
        /\ mix_metadata.title = Sanitizer(SourceTitle(resolved.given))
        /\ mix_metadata.artist = Sanitizer(SourceUploader(resolved.given))
        /\ mix_metadata.duration = SourceDuration(resolved.given)

\* A download without metadata whose downloader has an uploader but neither
\* a title nor a duration: the title is the file's stem, the uploader the
\* downloader's, the duration 0.
C32_Witness ==
    /\ call = "_apply_downloader_metadata"
    /\ resolved.given.how = "remote" /\ ~resolved.given.md.present
    /\ resolved.given.dl.attrs = {"uploader"}
    /\ mix_metadata = [title |-> <<"dl">>, artist |-> <<"VJ">>, duration |-> 0]

C34_ReusedFromSameInput ==
    (call = "split_audio" /\ pc = "idle") =>
        \A k \in DOMAIN audio_segments :
            \A f \in temp_files :
                f.name = audio_segments[k].file_path => f.from = local_path

\* A file mutagen finds no audio in: File() returns None, the file has no
\* info.length, or its length is 0.
NothingToSplit(p) ==
    \/ p[2] \in {"unknown", "noinfo"}
    \/ p[2] = "audio" /\ p[3] = 0

\* A file File() cannot open.
CannotBeOpened(p) == p[2] = "ioerror"

\* process_input has ended after it called split_audio.
EndedAfterSplit == Ended /\ "Segmenting" \in Range(trace)

\* What C35 says of a run that has ended: split_audio ran no transcoder
\* and returned no segment, identify_tracks was not called, the run failed
\* with "No audio segments were created", and cleanup ran once.
FailedWithNoSegments ==
    /\ \A i \in DOMAIN transcodes : transcodes[i] = 0
    /\ audio_segments = <<>>
    /\ identify_calls = <<>>
    /\ stage_result = "ValueError: No audio segments were created"
    /\ outcome = "ValueError: No audio segments were created"
    /\ cleanups = 1
    /\ "CleaningUp" \in Range(trace)

\* C35 as claimed: a file that cannot be read, has no duration or has the
\* duration 0 makes split_audio return no segment without running the
\* transcoder and without raising; the run fails with "No audio segments
\* were created" and cleanup runs.
C35_Original ==
    (EndedAfterSplit
     /\ (NothingToSplit(local_path) \/ CannotBeOpened(local_path))) =>
        FailedWithNoSegments

\* C35 as amended: so it is for a file File() returns None for, a file
\* without info.length and a file of duration 0; a file File() cannot open
\* makes File() raise out of split_audio, no transcoder is run, the run
\* fails with that error, and cleanup runs.
C35_NothingToSplit ==
    /\ (EndedAfterSplit /\ NothingToSplit(local_path)) =>
           FailedWithNoSegments
    /\ (EndedAfterSplit /\ CannotBeOpened(local_path)) =>
           /\ \A i \in DOMAIN transcodes : transcodes[i] = 0
           /\ audio_segments = <<>>
           /\ identify_calls = <<>>
           /\ stage_result = "MutagenError"
           /\ outcome = "MutagenError"
           /\ cleanups = 1
           /\ "CleaningUp" \in Range(trace)

\* A run on a local file without info.length ended with the stage error,
\* the temp directory never made.
C35_Witness ==
    /\ EndedAfterSplit /\ local_path = <<"local", "noinfo", 0>>
    /\ FailedWithNoSegments /\ ~temp_exists /\ segment_params = <<>>

\* C36: a step of a cleanup() or close() the caller made, taken when the
\* temp directory is gone, leaves it gone and leaves no exception in
\* flight, and the call returns without one.
C36_CleanupIdempotent ==
    [][(call' \in {"cleanup", "close"} /\ ~temp_exists) =>
           /\ ~temp_exists'
           /\ pending' = "ok"
           /\ pc' = "idle" => outcome' = "ok"]_vars

\* close() was called after process_input and a cleanup() (three cleanups
\* in all), the temp directory gone; it returned although the close hook
\* raised.
C36_Witness ==
    /\ call = "close" /\ pc = "idle" /\ prev.call = "cleanup"
    /\ cleanups = 3 /\ ~temp_exists /\ removals = <<>>
    /\ close_calls = 1 /\ close_failed
    /\ outcome = "ok"

\* No two stored users have addresses that are equal ignoring case.
UniqueEmails(list) ==
    \A i, j \in DOMAIN list :
        i # j => Lower(list[i].email) # Lower(list[j].email)

\* The list has a user with this address, ignoring case and the white
\* space around it.
Present(list, email) ==
    \E i \in DOMAIN list :
        Lower(Strip(list[i].email)) = Lower(Strip(email))

\* C37: after every call of add_user, update_user, toggle_favorite and
\* delete_user, made one at a time, no two stored users have addresses
\* that are equal ignoring case; and a call of add_user with an address
\* that is present, ignoring case and surrounding white space, raises
\* ValueError and leaves the stored list as it was.
C37_UniqueEmails ==
    [][/\ UniqueEmails(users')
       /\ (last'.op = "add_user" /\ Present(users, last'.email)) =>
              /\ last'.result = "ValueError"
              /\ users' = users]_vars

\* add_user was called with the address of the first user in upper case
\* and padded by another call before, and raised; the store has two users.
C37_Witness ==
    /\ last.op = "add_user" /\ last.result = "ValueError"
    /\ last.email = Email("user", TRUE, FALSE)
    /\ Len(users) = 2
    /\ users[1].email = Email("user", FALSE, FALSE)
    /\ users[1].favorites = Items
    /\ users[2].email = Email("dj", FALSE, FALSE)

\* The list after the call c of a thread, run alone on `list`.
ApplyCall(list, c) ==
    IF c.op = "add_user"
    THEN (IF GetByEmail(list, c.email) # 0 THEN list
          ELSE Append(list, c.user))
    ELSE IF c.op = "toggle_favorite"
    THEN (IF FindIndexById(list, c.id) = 0 THEN list
          ELSE [list EXCEPT
                   ![FindIndexById(list, c.id)] = Toggled(@, c.item)])
    ELSE list

\* The list after the threads' calls, run one after the other in `order`
\* from its k-th on.
RECURSIVE ApplyInOrder(_, _, _)
ApplyInOrder(list, order, k) ==
    IF k > Len(order) THEN list
    ELSE ApplyInOrder(ApplyCall(list, threads[order[k]]), order, k + 1)

\* The orders the threads' calls can be put in.
Orders ==
    {order \in [1..MaxThreads -> Threads] :
        \A i, j \in 1..MaxThreads : i # j => order[i] # order[j]}

\* Every thread's call has returned.
AllDone == \A t \in Threads : threads[t].pc = "done"

\* C38: when the steps of concurrent calls interleave, the stored list at
\* the end is the one some sequential order of the calls gives: no two
\* add_user calls for the same address both succeed, and the user a call
\* added, or the favorite it toggled, is not lost through another call's
\* save.
C38_Serializable ==
    AllDone =>
        /\ \E order \in Orders : users = ApplyInOrder(OneUser, order, 1)
        /\ \A t, u \in Threads :
               (/\ t # u
                /\ threads[t].op = "add_user" /\ threads[u].op = "add_user"
                /\ Lower(Strip(threads[t].email))
                       = Lower(Strip(threads[u].email))) =>
                  ~(threads[t].result = "ok" /\ threads[u].result = "ok")
        /\ \A t \in Threads :
               (threads[t].op = "add_user" /\ threads[t].result = "ok") =>
                  \E i \in DOMAIN users : users[i].id = threads[t].id

\* The store has an account with the default admin address (as
\* get_by_email finds it) that is an admin and authenticates with the
\* default password.
DefaultAdminReady ==
    /\ \E i \in DOMAIN users :
           /\ Lower(users[i].email) = DEFAULT_ADMIN_EMAIL
           /\ users[i].is_admin
    /\ Authenticate(users, DEFAULT_ADMIN_EMAIL, DEFAULT_ADMIN_PASSWORD) # 0

\* C39: with ADMIN_EMAIL unset or set to something other than the default
\* address, whatever ADMIN_PASSWORD is and whatever account was there
\* before, after ensure_default_admin the default admin account exists,
\* is an admin and authenticates with the default password; and a second
\* call leaves the stored list as it was.
C39_DefaultAdmin ==
    /\ [](( /\ last.op = "ensure_default_admin"
            /\ environ.email # DEFAULT_ADMIN_EMAIL) => DefaultAdminReady)
    /\ [][(/\ last.op = "ensure_default_admin"
           /\ last'.op = "ensure_default_admin"
           /\ environ.email # DEFAULT_ADMIN_EMAIL) => users' = users]_vars

====
